---- MODULE Spec2Model ----
(***************************************************************************)
(* Model of the live-game correlation engine of dazikus/tradai:            *)
(* services/sofascore.py (SofaScoreProvider), services/polymarket.py       *)
(* (MarketExtractor), services/sports.py (Sport variants),                 *)
(* services/tracker.py (LiveSportsTracker) and the serving layer's poll    *)
(* guard in app.py.                                                        *)
(*                                                                         *)
(* Text is modelled as a sequence of one-character strings, so that        *)
(* lower-casing, substring tests, splitting and replacing are computed the *)
(* way the Python code computes them.                                      *)
(***************************************************************************)
EXTENDS Integers, Sequences, FiniteSets, TLC


\* ------------------------------------------------------------------------
\* Python str operations on sequences of characters
\* ------------------------------------------------------------------------

UpperChars == <<"A","B","C","D","E","F","G","H","I","J","K","L","M","N","O","P","Q","R","S","T","U","V","W","X","Y","Z">>
LowerChars == <<"a","b","c","d","e","f","g","h","i","j","k","l","m","n","o","p","q","r","s","t","u","v","w","x","y","z">>

\* str.lower() on one character
LowerChar(c) ==
  IF \E i \in 1..26 : UpperChars[i] = c
    THEN LowerChars[CHOOSE i \in 1..26 : UpperChars[i] = c]
    ELSE c

\* str.lower()
Lower(s) == [i \in 1..Len(s) |-> LowerChar(s[i])]

\* s[i:].startswith(sub), i counted from 1
StartsWithAt(s, sub, i) ==
  /\ i + Len(sub) - 1 <= Len(s)
  /\ \A j \in 1..Len(sub) : s[i + j - 1] = sub[j]

\* str.startswith
StartsWith(s, sub) == StartsWithAt(s, sub, 1)

\* `sub in s`
Contains(s, sub) == \E i \in 1..(Len(s) - Len(sub) + 1) : StartsWithAt(s, sub, i)

\* str.find, counted from 1; 0 when absent
Find(s, sub) ==
  IF Contains(s, sub)
    THEN CHOOSE i \in 1..(Len(s) - Len(sub) + 1) :
           /\ StartsWithAt(s, sub, i)
           /\ \A j \in 1..(i - 1) : ~StartsWithAt(s, sub, j)
    ELSE 0

\* s[i:], i counted from 1
From(s, i) == SubSeq(s, i, Len(s))

\* str.replace(old, new) for a non-empty old: every non-overlapping
\* occurrence, left to right
RECURSIVE Replace(_, _, _)
Replace(s, old, new) ==
  IF Find(s, old) = 0 THEN s
  ELSE SubSeq(s, 1, Find(s, old) - 1) \o new
         \o Replace(From(s, Find(s, old) + Len(old)), old, new)

IsSpace(c) == c = " "

\* str.strip()
RECURSIVE LStrip(_)
LStrip(s) == IF s # <<>> /\ IsSpace(s[1]) THEN LStrip(Tail(s)) ELSE s
RECURSIVE RStrip(_)
RStrip(s) == IF s # <<>> /\ IsSpace(s[Len(s)]) THEN RStrip(SubSeq(s, 1, Len(s) - 1)) ELSE s
Strip(s) == RStrip(LStrip(s))

\* str.split(sep, 1): one or two parts
Split1(s, sep) ==
  IF Find(s, sep) = 0 THEN <<s>>
  ELSE <<SubSeq(s, 1, Find(s, sep) - 1), From(s, Find(s, sep) + Len(sep))>>

\* str.split(): the words between runs of whitespace
RECURSIVE SplitWords(_)
SplitWords(s) ==
  LET t == LStrip(s) IN
  IF t = <<>> THEN <<>>
  ELSE LET n == IF \E i \in 1..Len(t) : IsSpace(t[i])
                  THEN (CHOOSE i \in 1..Len(t) :
                          IsSpace(t[i]) /\ \A j \in 1..(i - 1) : ~IsSpace(t[j])) - 1
                  ELSE Len(t)
       IN <<SubSeq(t, 1, n)>> \o SplitWords(From(t, n + 1))

\* ' '.join(words)
RECURSIVE JoinWords(_)
JoinWords(ws) ==
  IF ws = <<>> THEN <<>>
  ELSE IF Len(ws) = 1 THEN ws[1]
  ELSE ws[1] \o <<" ">> \o JoinWords(Tail(ws))

\* any(term in s for term in terms)
ContainsAny(s, terms) == \E i \in 1..Len(terms) : Contains(s, terms[i])

Range(f) == {f[i] : i \in DOMAIN f}


\* ------------------------------------------------------------------------
\* services/sofascore.py: name normalization and fuzzy matching
\* ------------------------------------------------------------------------

Digits == {"0","1","2","3","4","5","6","7","8","9"}

\* \w of the regular expressions: letters, digits and the underscore
IsWordChar(c) ==
  \/ c \in Digits
  \/ c = "_"
  \/ \E i \in 1..26 : UpperChars[i] = c \/ LowerChars[i] = c
  \/ c \in {"e-acute", "u-acute"}

\* re.sub(r"'\d+", '', name), scanning from position p
RECURSIVE ReSubQuoteDigits(_, _)
ReSubQuoteDigits(s, p) ==
  IF p > Len(s) THEN <<>>
  ELSE IF s[p] = "'" /\ p + 1 <= Len(s) /\ s[p + 1] \in Digits
    THEN LET q == CHOOSE k \in (p + 2)..(Len(s) + 1) :
                    /\ \A j \in (p + 1)..(k - 1) : s[j] \in Digits
                    /\ (k > Len(s) \/ s[k] \notin Digits)
         IN ReSubQuoteDigits(s, q)
    ELSE <<s[p]>> \o ReSubQuoteDigits(s, p + 1)

\* re.sub(r'\b\d{4}\b', '', name), scanning from position p
RECURSIVE ReSubYear(_, _)
ReSubYear(s, p) ==
  IF p > Len(s) THEN <<>>
  ELSE IF /\ p + 3 <= Len(s)
          /\ \A j \in p..(p + 3) : s[j] \in Digits
          /\ (p = 1 \/ ~IsWordChar(s[p - 1]))
          /\ (p + 4 > Len(s) \/ ~IsWordChar(s[p + 4]))
    THEN ReSubYear(s, p + 4)
    ELSE <<s[p]>> \o ReSubYear(s, p + 1)

prefixes == <<
  <<"c","a"," ">>, <<"c","l","u","b"," ","a","t","l","e-acute","t","i","c","o"," ">>, <<"c","l","u","b"," ","a","t","l","e","t","i","c","o"," ">>, <<"a","t","l","e-acute","t","i","c","o"," ">>, <<"a","t","l","e","t","i","c","o"," ">>,
  <<"a","c"," ">>, <<"a","t","h","l","e","t","i","c"," ","c","l","u","b"," ">>, <<"a","t","h","l","e","t","i","c"," ">>, <<"c","f"," ">>, <<"s","c"," ">>, <<"f","c"," ">>, <<"f",".","c","."," ">>,
  <<"c","d"," ">>, <<"c","l","u","b"," ","d","e","p","o","r","t","i","v","o"," ">>, <<"c","l","u","b"," ","d","e"," ","f","u-acute","t","b","o","l"," ">>, <<"c","l","u","b"," ","d","e"," ","f","u","t","b","o","l"," ">> >>

suffixes == <<
  <<" ","s","a","u","d","i"," ","c","l","u","b">>, <<" ","s","a","u","d","i">>, <<" ","f","c">>, <<" ","f",".","c",".">>, <<" ","f"," ","c">>,
  <<" ","u","n","i","t","e","d">>, <<" ","c","i","t","y">>, <<" ","s","p","o","r","t","i","n","g">>, <<" ","c","l","u","b">>, <<" ","c","f">>, <<" ","s","c">>,
  <<" ","a","c">>, <<" ","a","t","h","l","e","t","i","c">>, <<" ","a","t","h","l","e","t","i","c"," ","c","l","u","b">>, <<" ","d","e"," ","f","u-acute","t","b","o","l">>, <<" ","d","e"," ","f","u","t","b","o","l">>,
  <<" ","w",".","f",".","c",".">>, <<" ","w","f","c">>, <<" ","w","o","m","e","n">>, <<" ","r","e","s","e","r","v","e","s">>, <<" ","r","e","s","e","r","v","e">>, <<" ","u","2","1">>, <<" ","u","2","3">>, <<" ","u","1","3">> >>

\* for prefix in prefixes: if name.startswith(prefix): name = name[len(prefix):]
RECURSIVE StripPrefixes(_, _)
StripPrefixes(name, i) ==
  IF i > Len(prefixes) THEN name
  ELSE LET rest == IF StartsWith(name, prefixes[i])
                     THEN From(name, Len(prefixes[i]) + 1)
                     ELSE name
       IN IF Len(rest) >= 0 THEN StripPrefixes(rest, i + 1) ELSE rest

\* a variant of ReSubTerm that removes the term wherever it occurs:
\* name.replace(term, '')
ReSubTerm_anywhere(s, term, p) == Replace(s, term, <<>>)

\* re.sub(r'(^|\s)' + re.escape(term) + r'(\s|$)', r'\1\2', name), scanning
\* from position p: non-overlapping matches, left to right; a match consumes
\* the whitespace on both sides and puts it back
RECURSIVE ReSubTerm(_, _, _)
ReSubTerm(s, term, p) ==
  IF p > Len(s) THEN <<>>
  ELSE LET EndOk(q) == q > Len(s) \/ IsSpace(s[q])
           atStart == p = 1 /\ StartsWithAt(s, term, 1) /\ EndOk(1 + Len(term))
           afterSpace == /\ IsSpace(s[p])
                         /\ StartsWithAt(s, term, p + 1)
                         /\ EndOk(p + 1 + Len(term))
           q == IF atStart THEN 1 + Len(term) ELSE p + 1 + Len(term)
           g1 == IF atStart THEN <<>> ELSE <<s[p]>>
           g2 == IF q <= Len(s) THEN <<s[q]>> ELSE <<>>
       IN IF atStart \/ afterSpace
            THEN g1 \o g2 \o ReSubTerm(s, term, IF q <= Len(s) THEN q + 1 ELSE q)
            ELSE <<s[p]>> \o ReSubTerm(s, term, p + 1)

\* for term in suffixes: name = re.sub(pattern(term.strip()), r'\1\2', name)
RECURSIVE StripSuffixes(_, _)
StripSuffixes(name, i) ==
  IF i > Len(suffixes) THEN name
  ELSE LET rest == ReSubTerm(name, Strip(suffixes[i]), 1)
       IN IF Len(rest) >= 0 THEN StripSuffixes(rest, i + 1) ELSE rest

\* SofaScoreProvider._normalize_team_name
_normalize_team_name(team_name) ==
  LET lowered == Lower(team_name)
      spaced == Replace(Replace(lowered, <<"-">>, <<" ">>), <<"'">>, <<" ">>)
      noyear == ReSubYear(ReSubQuoteDigits(spaced, 1), 1)
      stripped == StripSuffixes(StripPrefixes(noyear, 1), 1)
  IN Strip(JoinWords(SplitWords(stripped)))

common_stopwords == { <<"d","e">>, <<"l","a">>, <<"e","l">>, <<"c","f">>, <<"s","c">>, <<"a","c">>, <<"a","s">>, <<"t","h","e">>, <<"y">>, <<"v","s">> }

\* a variant of min that takes the first
min_first(n1, n2) == n1

\* min(len(words1), len(words2))
min(n1, n2) == IF n1 < n2 THEN n1 ELSE n2

\* _teams_match once both names are normalized; overlap_ratio >= 0.7 is
\* computed in tenths: 10 * |common| >= 7 * min(|words1|, |words2|)
normalized_match(normalized1, normalized2) ==
  LET words1 == Range(SplitWords(normalized1)) \ common_stopwords
      words2 == Range(SplitWords(normalized2)) \ common_stopwords
      n1 == Cardinality(words1)
      n2 == Cardinality(words2)
      smaller == min(n1, n2)
  IN IF normalized1 = normalized2 THEN TRUE
     ELSE IF Contains(normalized2, normalized1) \/ Contains(normalized1, normalized2) THEN TRUE
     ELSE IF words1 = {} \/ words2 = {} THEN FALSE
     ELSE 10 * Cardinality(words1 \cap words2) >= 7 * smaller

\* SofaScoreProvider._teams_match
_teams_match(team1, team2) ==
  normalized_match(_normalize_team_name(team1), _normalize_team_name(team2))


\* ------------------------------------------------------------------------
\* Optional values: None is the empty tuple, a present value v is <<v>>
\* ------------------------------------------------------------------------

Some(v) == <<v>>
IsNone(o) == o = <<>>
The(o) == o[1]

\* ------------------------------------------------------------------------
\* services/sports.py
\* ------------------------------------------------------------------------

separators == << <<" ","v","s","."," ">>, <<" ","v","s"," ">>, <<" ","v"," ">> >>
title_suffixes == << <<" ","-"," ","M","o","r","e"," ","M","a","r","k","e","t","s">>, <<" ","-"," ","M","a","t","c","h"," ","W","i","n","n","e","r">>, <<" ","-"," ","M","o","n","e","y","l","i","n","e">> >>

\* the inner loop of extract_teams_from_title: every suffix found in the
\* title replaces clean_title by title.replace(suffix, '')
RECURSIVE CleanTitle(_, _, _)
CleanTitle(title, clean_title, i) ==
  IF i > Len(title_suffixes) THEN clean_title
  ELSE CleanTitle(title,
                  IF Contains(title, title_suffixes[i])
                    THEN Replace(title, title_suffixes[i], <<>>)
                    ELSE clean_title,
                  i + 1)

\* Sport.extract_teams_from_title, from separator i on: <<>> is (None, None)
RECURSIVE ExtractTeamsFrom(_, _), TeamsOfParts(_, _, _)
ExtractTeamsFrom(title, i) ==
  IF i > Len(separators) THEN <<>>
  ELSE IF Contains(Lower(title), separators[i])
    THEN TeamsOfParts(Split1(CleanTitle(title, title, 1), separators[i]), title, i)
    ELSE ExtractTeamsFrom(title, i + 1)

\* "if len(parts) == 2: return parts[0].strip(), parts[1].strip()", else
\* the loop goes on with the next separator
TeamsOfParts(parts, title, i) ==
  IF Len(parts) = 2
    THEN <<Strip(parts[1]), Strip(parts[2])>>
    ELSE ExtractTeamsFrom(title, i + 1)

extract_teams_from_title(title) == ExtractTeamsFrom(title, 1)

\* Sport.is_live_event; startTime / eventDate are None, an unparseable text
\* ("bad") or a point in time
is_live_event(event, t) ==
  IF event.closed THEN FALSE
  ELSE LET start_time_str == IF event.startTime.kind # "none"
                               THEN event.startTime ELSE event.eventDate
       IN IF start_time_str.kind = "none" THEN FALSE
          ELSE IF start_time_str.kind = "bad" THEN FALSE
          ELSE start_time_str.at <= t

\* a field that is a list, a string holding JSON for a list, another string,
\* or something else: [kind |-> "list" | "json" | "str" | "other", val |-> ...]
\* json.loads(outcomes) guarded by except: outcomes = []   (sports.py)
outcomes_of(market) ==
  IF market.outcomes.kind \in {"list", "json"} THEN market.outcomes.val ELSE <<>>

soccer_excluded_structural == <<
  <<"d","o","t","a">>, <<"c","o","u","n","t","e","r","-","s","t","r","i","k","e">>, <<"v","a","l","o","r","a","n","t">>, <<"l","e","a","g","u","e"," ","o","f"," ","l","e","g","e","n","d","s">>, <<"l","o","l",":">>,
  <<"u","f","c">>, <<"m","a","r","g","i","n"," ","o","f"," ","v","i","c","t","o","r","y">>, <<"l","a","r","g","e","r"," ","m","a","r","g","i","n">>, <<"m","o","r","e"," ","m","a","r","k","e","t","s">> >>

soccer_terms == <<
  <<"u","n","i","t","e","d">>, <<"c","i","t","y"," ","f","c">>, <<"a","t","h","l","e","t","i","c">>, <<"s","p","o","r","t","i","n","g">>, <<"r","e","a","l"," ">>, <<"c","l","u","b"," ">>,
  <<"w","a","n","d","e","r","e","r","s">>, <<"g","l","o","r","y">>, <<"m","a","r","i","n","e","r","s">>, <<"v","i","c","t","o","r","y">>, <<"r","o","v","e","r","s">>,
  <<"e","s","g","r","i","m","a">>, <<"s","a","r","s","f","i","e","l","d">>, <<"g","i","m","n","a","s","i","a">>, <<"v","e-acute","l","e","z">>, <<"v","e","l","e","z">>,
  <<"r","i","v","e","r"," ","p","l","a","t","e">>, <<"b","o","c","a"," ","j","u","n","i","o","r","s">>, <<"f","l","a","m","e","n","g","o">>, <<"p","a","l","m","e","i","r","a","s">>, <<"s","a","n","t","o","s">>,
  <<"c","o","r","i","n","t","h","i","a","n","s">>, <<"f","l","u","m","i","n","e","n","s","e">>, <<"a","t","l","e","t","i","c","o">>, <<"a","t","l","e-acute","t","i","c","o">>, <<"i","n","d","e","p","e","n","d","i","e","n","t","e">> >>

soccer_excluded == <<
  <<"d","o","t","a">>, <<"c","o","u","n","t","e","r","-","s","t","r","i","k","e">>, <<"v","a","l","o","r","a","n","t">>, <<"l","e","a","g","u","e"," ","o","f"," ","l","e","g","e","n","d","s">>, <<"l","o","l",":">>,
  <<"u","f","c">>, <<"g","a","m","e","c","o","c","k","s">>, <<"r","a","i","d","e","r","s">>, <<"w","i","l","d","c","a","t","s">>, <<"t","i","g","e","r","s">>, <<"o","s","p","r","e","y","s">>,
  <<"c","a","r","d","i","n","a","l","s">>, <<"w","a","r","r","i","o","r","s">>, <<"l","a","n","c","e","r","s">>, <<"t","r","a","i","l","b","l","a","z","e","r","s">>, <<"j","a","g","u","a","r","s">>,
  <<"l","e","a","t","h","e","r","n","e","c","k","s">>, <<"s","h","a","r","k","s">>, <<"t","u","l","a","n","e">>, <<"t","u","l","s","a">>, <<"m","a","r","g","i","n"," ","o","f"," ","v","i","c","t","o","r","y">>,
  <<"l","a","r","g","e","r"," ","m","a","r","g","i","n">>, <<"m","o","r","e"," ","m","a","r","k","e","t","s">> >>

\* SoccerSport.is_sport_event
Soccer_is_sport_event(event) ==
  LET title_lower == Lower(event.title)
      looks_like_soccer(market) ==
        LET outcomes == outcomes_of(market)
        IN /\ Len(outcomes) = 3
           /\ \E i \in 1..3 : \/ Contains(Lower(outcomes[i]), <<"d","r","a","w">>)
                              \/ Contains(Lower(outcomes[i]), <<"t","i","e">>)
      has_fc == Contains(title_lower, <<"f","c">>) \/ Contains(title_lower, <<"f",".","c",".">>)
      has_soccer_terms == ContainsAny(title_lower, soccer_terms)
  IN IF /\ \E i \in 1..Len(event.markets) : looks_like_soccer(event.markets[i])
        /\ ~ContainsAny(title_lower, soccer_excluded_structural)
       THEN TRUE
       ELSE (has_fc \/ has_soccer_terms) /\ ~ContainsAny(title_lower, soccer_excluded)

nhl_terms == <<
  <<"b","r","u","i","n","s">>, <<"m","a","p","l","e"," ","l","e","a","f","s">>, <<"c","a","n","a","d","i","e","n","s">>, <<"s","e","n","a","t","o","r","s">>, <<"s","a","b","r","e","s">>,
  <<"r","a","n","g","e","r","s">>, <<"i","s","l","a","n","d","e","r","s">>, <<"d","e","v","i","l","s">>, <<"f","l","y","e","r","s">>, <<"p","e","n","g","u","i","n","s">>,
  <<"c","a","p","i","t","a","l","s">>, <<"h","u","r","r","i","c","a","n","e","s">>, <<"b","l","u","e"," ","j","a","c","k","e","t","s">>, <<"p","a","n","t","h","e","r","s">>, <<"l","i","g","h","t","n","i","n","g">>,
  <<"b","l","a","c","k","h","a","w","k","s">>, <<"a","v","a","l","a","n","c","h","e">>, <<"s","t","a","r","s">>, <<"w","i","l","d">>, <<"p","r","e","d","a","t","o","r","s">>,
  <<"b","l","u","e","s">>, <<"j","e","t","s">>, <<"f","l","a","m","e","s">>, <<"o","i","l","e","r","s">>, <<"c","a","n","u","c","k","s">>,
  <<"g","o","l","d","e","n"," ","k","n","i","g","h","t","s">>, <<"k","i","n","g","s">>, <<"d","u","c","k","s">>, <<"s","h","a","r","k","s">>, <<"c","o","y","o","t","e","s">>,
  <<"k","r","a","k","e","n">>, <<"n","h","l">> >>

\* NHLSport.is_sport_event
NHL_is_sport_event(event) ==
  LET title == Lower(event.title)
      is_soccer == Contains(title, <<"f","c">>) \/ ContainsAny(title, << <<"u","n","i","t","e","d">>, <<"c","i","t","y"," ","f","c">> >>)
  IN ContainsAny(title, nhl_terms) /\ ~is_soccer

\* the Sport variants: get_name() is the variant's name
is_sport_event(sport, event) ==
  IF sport = "Soccer" THEN Soccer_is_sport_event(event) ELSE NHL_is_sport_event(event)

\* SoccerSport.has_draw_option / NHLSport.has_draw_option
has_draw_option(sport) == sport = "Soccer"

\* ------------------------------------------------------------------------
\* services/polymarket.py: MarketExtractor
\* ------------------------------------------------------------------------

\* MarketExtractor.parse_json_field
parse_json_field(field) ==
  IF field.kind = "json" THEN field.val
  ELSE IF field.kind = "str" THEN (IF field.val # <<>> THEN <<field.val>> ELSE <<>>)
  ELSE IF field.kind = "list" THEN field.val
  ELSE <<>>

\* re.sub(r'\s*\d{4}-\d{2}-\d{2}\s*', '', name), scanning from position p
RECURSIVE ReSubDate(_, _)
ReSubDate(s, p) ==
  IF p > Len(s) THEN <<>>
  ELSE LET SpacesEnd(k) == CHOOSE e \in k..(Len(s) + 1) :
                             /\ \A j \in k..(e - 1) : IsSpace(s[j])
                             /\ (e > Len(s) \/ ~IsSpace(s[e]))
           d == SpacesEnd(p)
           IsDate == /\ d + 9 <= Len(s)
                     /\ \A j \in {0, 1, 2, 3, 5, 6, 8, 9} : s[d + j] \in Digits
                     /\ s[d + 4] = "-" /\ s[d + 7] = "-"
       IN IF IsDate THEN ReSubDate(s, SpacesEnd(d + 10))
          ELSE <<s[p]>> \o ReSubDate(s, p + 1)

\* MarketExtractor.clean_team_name
clean_team_name(question) ==
  LET name == Strip(Replace(Replace(Replace(question, <<"W","i","l","l"," ">>, <<>>), <<" ","w","i","n"," ","o","n">>, <<>>), <<"?">>, <<>>))
  IN Strip(ReSubDate(name, 1))

\* PriceData()
NoPriceData == [price |-> <<>>, spread |-> <<>>]

\* price_data_map.get(yes_token, PriceData())
PriceOf(price_data_map, yes_token) ==
  IF yes_token \in DOMAIN price_data_map THEN price_data_map[yes_token] ELSE NoPriceData

\* a variant of skipped that looks at the tokens only
skipped_without_tokens(outcomes, clob_token_ids) == clob_token_ids = <<>>

\* extract_moneyline: "if len(outcomes) != 2 or not clob_token_ids: continue"
skipped(outcomes, clob_token_ids) == Len(outcomes) # 2 \/ clob_token_ids = <<>>

\* one pass of the loop of extract_moneyline: acc holds team_markets and
\* draw_market (None or the last draw market seen)
ScanMarket(market, price_data_map, has_draw, acc) ==
  LET question == Lower(market.question)
      outcomes == parse_json_field(market.outcomes)
      clob_token_ids == parse_json_field(market.clobTokenIds)
      yes_token == clob_token_ids[1]
  IN IF skipped(outcomes, clob_token_ids) THEN acc
     ELSE IF has_draw /\ Contains(question, <<"d","r","a","w">>)
       THEN [acc EXCEPT !.draw_market =
               Some([name |-> <<"D","r","a","w">>, token_id |-> yes_token,
                     price_data |-> PriceOf(price_data_map, yes_token)])]
     ELSE IF Contains(question, <<"w","i","n">>)
       THEN [acc EXCEPT !.team_markets =
               Append(@, [name |-> clean_team_name(market.question),
                          token_id |-> yes_token,
                          price_data |-> PriceOf(price_data_map, yes_token)])]
     ELSE acc

\* the loop of extract_moneyline over markets[i..]
RECURSIVE ScanMarkets(_, _, _, _, _)
ScanMarkets(markets, price_data_map, has_draw, i, acc) ==
  IF i > Len(markets) THEN acc
  ELSE ScanMarkets(markets, price_data_map, has_draw, i + 1,
                   ScanMarket(markets[i], price_data_map, has_draw, acc))

expected_team_markets == 2

\* a variant of moneyline_of without the test of len(team_markets): it
\* returns whatever team markets the loop collected
moneyline_of_any_count(team_markets, draw_market, has_draw) ==
  IF team_markets = <<>> THEN <<>>
  ELSE Some([outcomes |-> team_markets, has_draw |-> has_draw])

\* extract_moneyline after its loop: None or a Moneyline
moneyline_of(team_markets, draw_market, has_draw) ==
  IF has_draw
    THEN IF Len(team_markets) = expected_team_markets /\ ~IsNone(draw_market)
           THEN Some([outcomes |-> <<team_markets[1], The(draw_market), team_markets[2]>>,
                      has_draw |-> TRUE])
           ELSE <<>>
    ELSE IF Len(team_markets) = expected_team_markets
           THEN Some([outcomes |-> team_markets, has_draw |-> FALSE])
           ELSE <<>>

\* what the loop of extract_moneyline leaves
scanned(acc, has_draw) == moneyline_of(acc.team_markets, acc.draw_market, has_draw)

\* MarketExtractor.extract_moneyline
extract_moneyline(markets, price_data_map, has_draw) ==
  scanned(ScanMarkets(markets, price_data_map, has_draw, 1,
                      [team_markets |-> <<>>, draw_market |-> <<>>]),
          has_draw)


\* ------------------------------------------------------------------------
\* Bounds of the model and the inputs the collaborators can supply
\* ------------------------------------------------------------------------

\* the clock runs from 0 to MaxTime in steps of TickSeconds
MaxTime == 45
TickSeconds == 15
\* poll cycles started over a run
MaxPolls == 2

CACHE_SECONDS == 30
CACHE_TTL_SECONDS == 45

\* the request-handling threads of the server
Threads == {"w1", "w2"}

YesNo == [kind |-> "json", val |-> << <<"Y","e","s">>, <<"N","o">> >>]
Tokens(a, b) == [kind |-> "json", val |-> <<a, b>>]
At(t) == [kind |-> "time", at |-> t]
NoTimeField == [kind |-> "none", at |-> 0]

WinDrawWin(home, away) == <<
  [question |-> <<"W","i","l","l"," ">> \o home \o <<" ","w","i","n"," ","o","n"," ","2","0","2","5","-","1","1","-","0","4","?">>,
   outcomes |-> YesNo, clobTokenIds |-> Tokens(<<"h","1">>, <<"h","2">>)],
  [question |-> <<"W","i","l","l"," ">> \o home \o <<" ","v","s","."," ">> \o away \o <<" ","e","n","d"," ","i","n"," ","a"," ","d","r","a","w","?">>,
   outcomes |-> YesNo, clobTokenIds |-> Tokens(<<"d","1">>, <<"d","2">>)],
  [question |-> <<"W","i","l","l"," ">> \o away \o <<" ","w","i","n"," ","o","n"," ","2","0","2","5","-","1","1","-","0","4","?">>,
   outcomes |-> YesNo, clobTokenIds |-> Tokens(<<"a","1">>, <<"a","2">>)] >>

\* market events as the market platform lists them
EvAjax == [id |-> 1, title |-> <<"A","j","a","x"," ","F","C"," ","v","s","."," ","L","y","o","n">>, closed |-> FALSE,
           startTime |-> At(0), eventDate |-> NoTimeField,
           markets |-> WinDrawWin(<<"A","j","a","x"," ","F","C">>, <<"L","y","o","n">>)]
EvKings == [id |-> 2, title |-> <<"R","e","a","l"," ","K","i","n","g","s"," ","v","s"," ","W","i","l","d">>, closed |-> FALSE,
            startTime |-> NoTimeField, eventDate |-> At(0),
            markets |-> WinDrawWin(<<"R","e","a","l"," ","K","i","n","g","s">>, <<"W","i","l","d">>)]
EvAfcB == [id |-> 3, title |-> <<"a","f","c","_","b"," ","v","s"," ","c">>, closed |-> FALSE,
           startTime |-> At(0), eventDate |-> NoTimeField,
           markets |-> WinDrawWin(<<"a","f","c","_","b">>, <<"c">>)]
EvAfc == [id |-> 4, title |-> <<"a","f","c"," ","v","s"," ","b","_","c">>, closed |-> FALSE,
          startTime |-> At(0), eventDate |-> NoTimeField,
          markets |-> WinDrawWin(<<"a","f","c">>, <<"b","_","c">>)]
EvNoSeparator == [id |-> 5, title |-> <<"A","j","a","x"," ","F","C"," ","-"," ","L","y","o","n">>, closed |-> FALSE,
                  startTime |-> At(0), eventDate |-> NoTimeField,
                  markets |-> WinDrawWin(<<"A","j","a","x"," ","F","C">>, <<"L","y","o","n">>)]
EvNoMarkets == [id |-> 6, title |-> <<"A","j","a","x"," ","F","C"," ","v","s"," ","L","y","o","n">>, closed |-> FALSE,
                startTime |-> At(0), eventDate |-> NoTimeField, markets |-> <<>>]
EvLater == [id |-> 7, title |-> <<"A","j","a","x"," ","F","C"," ","v","s"," ","L","y","o","n">>, closed |-> FALSE,
            startTime |-> At(30), eventDate |-> NoTimeField,
            markets |-> SubSeq(WinDrawWin(<<"A","j","a","x"," ","F","C">>, <<"L","y","o","n">>), 1, 2)]
EvClosed == [id |-> 8, title |-> <<"A","j","a","x"," ","F","C"," ","v","s"," ","L","y","o","n">>, closed |-> TRUE,
             startTime |-> At(0), eventDate |-> NoTimeField,
             markets |-> WinDrawWin(<<"A","j","a","x"," ","F","C">>, <<"L","y","o","n">>)]

\* what get_events can return
EventLists == { <<>>,
                <<EvAjax, EvKings>>,
                <<EvAfcB, EvAfc>>,
                <<EvNoSeparator, EvNoMarkets, EvLater, EvClosed>> }

\* live fixtures as the score provider lists them; id 0 is a fixture
\* without an id, status <<>> one without a status description
FxNoId == [id |-> 0, homeTeam |-> <<"A","j","a","x">>, awayTeam |-> <<"L","y","o","n">>, status |-> Some(<<"1","s","t"," ","h","a","l","f">>)]
FxAjax == [id |-> 11, homeTeam |-> <<"A","j","a","x">>, awayTeam |-> <<"L","y","o","n">>, status |-> Some(<<"1","s","t"," ","h","a","l","f">>)]
FxAjaxEnded == [id |-> 11, homeTeam |-> <<"A","j","a","x">>, awayTeam |-> <<"L","y","o","n">>, status |-> Some(<<"E","n","d","e","d">>)]
FxKings == [id |-> 12, homeTeam |-> <<"K","i","n","g","s">>, awayTeam |-> <<"W","i","l","d">>, status |-> <<>>]
FxFcB == [id |-> 13, homeTeam |-> <<"f","c","_","b">>, awayTeam |-> <<"c">>, status |-> Some(<<"H","a","l","f","t","i","m","e">>)]

\* what the live-fixture endpoint can list
FixtureLists == { <<>>,
                  <<FxNoId, FxAjax, FxKings>>,
                  <<FxAjaxEnded, FxFcB>> }

FailureKinds == {"timeout", "connection", "status", "invalid_json"}

\* the answers of the live-fixture endpoint: a 200 with an events list, a
\* 200 whose JSON has no events field, or a failure
ListResponses ==
  {[kind |-> "ok", events |-> fl] : fl \in FixtureLists}
    \cup {[kind |-> "missing_events", events |-> <<>>]}
    \cup {[kind |-> k, events |-> <<>>] : k \in FailureKinds}

\* what get_price_data can return for a token (percent)
Priced == [price |-> <<50>>, spread |-> <<2>>]
Quotes == { Priced }

\* the sports the tracker can be constructed with (app.py configures
\* Soccer and leaves NHL to be switched on)
SportConfigs == { <<"Soccer">>, <<"Soccer", "NHL">> }


\* ------------------------------------------------------------------------
\* The pure functions tabulated over the pools above (each table is the
\* function applied to every input the state machine can hand it)
\* ------------------------------------------------------------------------

SportNames == {"Soccer", "NHL"}
AllEvents == UNION {Range(el) : el \in EventLists}
EventIds == {e.id : e \in AllEvents}
EventById == [i \in EventIds |-> CHOOSE e \in AllEvents : e.id = i]
IdsOf(el) == [j \in 1..Len(el) |-> el[j].id]

\* sport.extract_teams_from_title(event_title) for every event
teams_of == [i \in EventIds |-> extract_teams_from_title(EventById[i].title)]

\* process_event: "if not home_team or not away_team" does not hold
has_teams(teams) == teams # <<>> /\ teams[1] # <<>> /\ teams[2] # <<>>
TeamPairs == {teams \in Range(teams_of) : has_teams(teams)}

\* sport.is_sport_event(event) for every sport and event
sport_event_of == [s \in SportNames |-> [i \in EventIds |-> is_sport_event(s, EventById[i])]]

\* ------------------------------------------------------------------------
\* services/sofascore.py: the caches and the lookup
\* ------------------------------------------------------------------------

\* a variant of all_matches_cache_hit that still serves the list at the
\* age of CACHE_SECONDS
all_matches_cache_hit_inclusive(cache, t) ==
  /\ ~IsNone(cache)
  /\ t - The(cache).cached_at <= CACHE_SECONDS

\* _fetch_all_live_matches: the cached list is returned while its age is
\* below CACHE_SECONDS
all_matches_cache_hit(cache, t) ==
  /\ ~IsNone(cache)
  /\ t - The(cache).cached_at < CACHE_SECONDS

\* a variant of fetch_response that answers a failure with an empty list
fetch_response_swallowing(resp) ==
  IF resp.kind \in FailureKinds \/ resp.kind = "missing_events"
    THEN [raised |-> FALSE, matches |-> <<>>]
    ELSE [raised |-> FALSE, matches |-> resp.events]

\* _fetch_all_live_matches: what the answer of the endpoint leads to
fetch_response(resp) ==
  IF resp.kind \in FailureKinds THEN [raised |-> TRUE, matches |-> <<>>]
  ELSE IF resp.kind = "missing_events" THEN [raised |-> FALSE, matches |-> <<>>]
  ELSE [raised |-> FALSE, matches |-> resp.events]

\* get_live_game_data: cache_key
cache_key(home_team, away_team) == Lower(home_team) \o <<"_">> \o Lower(away_team)

\* get_live_game_data: the per-pair entry is returned while its age is
\* below CACHE_SECONDS
pair_cache_hit(cache, key, t) ==
  /\ key \in DOMAIN cache
  /\ t - cache[key].cached_at < CACHE_SECONDS

\* match.get('status', {}).get('description', 'Live')
status_description(match) == IF IsNone(match.status) THEN <<"L","i","v","e">> ELSE The(match.status)

\* a variant of names_match that is content with one side
names_match_one_side(home_match, away_match) == home_match \/ away_match

\* get_live_game_data: "if home_match and away_match"
names_match(home_match, away_match) == home_match /\ away_match

\* get_live_game_data, the loop over live_matches[i..]: the first fixture
\* whose home and away names both match and that has an id
RECURSIVE FindMatch(_, _, _, _)
FindMatch(home_team, away_team, live_matches, i) ==
  IF i > Len(live_matches) THEN <<>>
  ELSE LET match == live_matches[i]
           home_match == _teams_match(home_team, match.homeTeam)
           away_match == _teams_match(away_team, match.awayTeam)
       IN IF names_match(home_match, away_match) /\ match.id # 0
            THEN Some([home_team |-> match.homeTeam, away_team |-> match.awayTeam,
                       event_id |-> match.id, status |-> status_description(match)])
            ELSE FindMatch(home_team, away_team, live_matches, i + 1)

\* the loop of get_live_game_data for every pair and fixture list
found_in == [p \in TeamPairs |-> [fl \in FixtureLists |-> FindMatch(p[1], p[2], fl, 1)]]
key_of == [p \in TeamPairs |-> cache_key(p[1], p[2])]

\* _normalize_team_name for every team name of the events
normalized_name ==
  [name \in UNION {{p[1], p[2]} : p \in TeamPairs} |-> _normalize_team_name(name)]
LiveDataOpts == {<<>>} \cup {found_in[p][fl] : p \in TeamPairs, fl \in FixtureLists}

\* a variant of cache_write that drops the entry of a pair that is no
\* longer matched
cache_write_forgetting(cache, key, pair, game_data, t) ==
  IF IsNone(game_data) THEN [k \in DOMAIN cache \ {key} |-> cache[k]]
  ELSE (key :> [data |-> The(game_data), cached_at |-> t, pair |-> pair]) @@ cache

\* get_live_game_data after its loop: the per-pair cache it leaves.  An
\* entry is (game_data, cached_at); pair is a history field naming the
\* (home_team, away_team) of the lookup that wrote the entry.
cache_write(cache, key, pair, game_data, t) ==
  IF IsNone(game_data) THEN cache
  ELSE (key :> [data |-> The(game_data), cached_at |-> t, pair |-> pair]) @@ cache

\* ------------------------------------------------------------------------
\* services/tracker.py
\* ------------------------------------------------------------------------

\* get_live_events: of the listed events (by id, in order) those of this
\* sport that are potentially live
RECURSIVE get_live_events(_, _, _)
get_live_events(sport, all_events, t) ==
  IF all_events = <<>> THEN <<>>
  ELSE (IF /\ sport_event_of[sport][Head(all_events)]
           /\ is_live_event(EventById[Head(all_events)], t)
          THEN <<Head(all_events)>> ELSE <<>>)
         \o get_live_events(sport, Tail(all_events), t)

terminal_terms == << <<"f","i","n","i","s","h","e","d">>, <<"e","n","d","e","d">>, <<"f","u","l","l"," ","t","i","m","e">>, <<"a","f","t","e","r"," ","e","x","t","r","a"," ","t","i","m","e">>, <<"a","f","t","e","r"," ","p","e","n","a","l","t","i","e","s">> >>

\* a variant of is_finished that knows the term 'finished' only
is_finished_one_term(status) == status # <<>> /\ Contains(Lower(status), <<"f","i","n","i","s","h","e","d">>)

\* process_event: the status says the game is finished
is_finished(status) == status # <<>> /\ ContainsAny(Lower(status), terminal_terms)

\* process_event: all_token_ids
RECURSIVE AllTokenIds(_)
AllTokenIds(markets) ==
  IF markets = <<>> THEN <<>>
  ELSE parse_json_field(Head(markets).clobTokenIds) \o AllTokenIds(Tail(markets))

\* process_event from "if not moneyline" on: None or the LiveGameResponse
response_of(event, sport, home_team, away_team, live_data, moneyline) ==
  IF IsNone(moneyline) THEN <<>>
  ELSE Some([event_id |-> event.id,
             home_team |-> home_team, away_team |-> away_team,
             live_data |-> live_data, moneyline |-> The(moneyline),
             sport |-> sport])

\* process_event from "if not all_token_ids" on; get_bulk_price_data
\* answers quote for every token
priced(event, sport, home_team, away_team, live_data, all_token_ids, quote) ==
  IF all_token_ids = <<>> THEN <<>>
  ELSE response_of(event, sport, home_team, away_team, live_data,
                   extract_moneyline(event.markets,
                                     [tok \in Range(all_token_ids) |-> quote],
                                     has_draw_option(sport)))

\* a variant of process_event_tail without "if not live_data: return None"
process_event_tail_unverified(event, sport, home_team, away_team, live_data, quote) ==
  IF ~IsNone(live_data) /\ is_finished(The(live_data).status) THEN <<>>
  ELSE IF event.markets = <<>> THEN <<>>
  ELSE priced(event, sport, home_team, away_team, live_data,
              AllTokenIds(event.markets), quote)

\* process_event from "if not live_data" on: None or the LiveGameResponse.
\* quote is the price data the market platform answers for a token.
process_event_tail(event, sport, home_team, away_team, live_data, quote) ==
  IF IsNone(live_data) THEN <<>>
  ELSE IF is_finished(The(live_data).status) THEN <<>>
  ELSE IF event.markets = <<>> THEN <<>>
  ELSE priced(event, sport, home_team, away_team, live_data,
              AllTokenIds(event.markets), quote)

\* a variant of process_event_except that lets the provider error leave
\* process_event
process_event_except_propagating == [propagates |-> TRUE, returns |-> <<>>]

\* process_event: what the except clause around get_live_game_data does
\* with a provider error: the event is skipped (return None), the error
\* does not leave process_event
process_event_except == [propagates |-> FALSE, returns |-> <<>>]

\* process_event_tail for an event with its teams and every sport, quote
\* and lookup result
tail_for(event, teams) ==
  IF has_teams(teams)
    THEN [s \in SportNames |-> [q \in Quotes |-> [ld \in LiveDataOpts |->
            process_event_tail(event, s, teams[1], teams[2], ld, q)]]]
    ELSE <<>>
tail_of == [i \in EventIds |-> tail_for(EventById[i], teams_of[i])]

\* ------------------------------------------------------------------------
\* Inputs of extract_moneyline on its own
\* ------------------------------------------------------------------------

\* the longest list of sub-markets handed to extract_moneyline
MaxMarkets == 4

ThreeWay == [kind |-> "list", val |-> << <<"A">>, <<"D","r","a","w">>, <<"B">> >>]
NoTokens == [kind |-> "list", val |-> <<>>]

MkWinA == [question |-> <<"W","i","l","l"," ","A"," ","w","i","n"," ","o","n"," ","2","0","2","5","-","1","1","-","0","4","?">>, outcomes |-> YesNo,
           clobTokenIds |-> Tokens(<<"a","1">>, <<"a","2">>)]
MkWinB == [question |-> <<"W","i","l","l"," ","B"," ","w","i","n","?">>, outcomes |-> YesNo,
           clobTokenIds |-> Tokens(<<"b","1">>, <<"b","2">>)]
MkDraw == [question |-> <<"W","i","l","l"," ","A"," ","v","s","."," ","B"," ","e","n","d"," ","i","n"," ","a"," ","d","r","a","w","?">>, outcomes |-> YesNo,
           clobTokenIds |-> Tokens(<<"d","1">>, <<"d","2">>)]
MkDrawHalf == [question |-> <<"D","r","a","w"," ","a","t"," ","h","a","l","f"," ","t","i","m","e","?">>, outcomes |-> YesNo,
               clobTokenIds |-> [kind |-> "str", val |-> <<"e","1">>]]
MkThreeWay == [question |-> <<"W","h","o"," ","w","i","l","l"," ","w","i","n","?">>, outcomes |-> ThreeWay,
               clobTokenIds |-> Tokens(<<"w","1">>, <<"w","2">>)]
MkNoTokens == [question |-> <<"W","i","l","l"," ","B"," ","w","i","n","?">>, outcomes |-> YesNo, clobTokenIds |-> NoTokens]

SubMarkets == {MkWinA, MkWinB, MkDraw, MkDrawHalf, MkThreeWay, MkNoTokens}
MarketLists == UNION {[1..n -> SubMarkets] : n \in 0..MaxMarkets}
PriceMaps == { <<>>,
               [tok \in { <<"a","1">>, <<"b","1">>, <<"d","1">>, <<"e","1">>, <<"w","1">> } |-> Priced] }

\* ------------------------------------------------------------------------
\* The state machine: request threads running poll cycles
\* ------------------------------------------------------------------------

VARIABLES
  now,                \* datetime.now(timezone.utc), in seconds
  sports,             \* LiveSportsTracker.sports
  open_events,        \* the events the market platform lists (get_events), by id
  _all_matches_cache, \* SofaScoreProvider._all_matches_cache
  _cache,             \* SofaScoreProvider._cache
  games_cache,        \* app.py games_cache
  pc,                 \* where each thread is
  loc,                \* each thread's locals of its poll cycle
  polls,              \* poll cycles started so far
  ml,                 \* a call of extract_moneyline on its own
  fn                  \* a call of another function on its own

vars == <<now, sports, open_events, _all_matches_cache, _cache, games_cache, pc, loc, polls, ml, fn>>

\* what no poll cycle changes
fixed == <<sports, open_events, ml, fn>>

\* the record of one process_event call:
\*   src         where get_live_game_data took its answer from: "none" (not
\*               called), "pair_cache", "list_cache" or "upstream"
\*   resp        how the upstream answered: "none", "ok" or "failed"
\*   err         get_live_game_data raised
\*   pair        the (home, away) the lookup was made for
\*   entry_pair  the lookup that wrote the per-pair entry used
\*   game        process_event returned a game
NoCall ==
  [event_id |-> 0, sport |-> "none", src |-> "none", resp |-> "none", err |-> FALSE,
   pair |-> <<>>, live_data |-> <<>>, entry_pair |-> <<>>, game |-> FALSE]

\* the locals of get_all_live_games and of the calls it makes, and what
\* the cycle did so far:
\*   last         the most recent process_event call
\*   n_calls      process_event calls made
\*   pair_hits    some lookup was answered from the per-pair cache
\*   lists        what _fetch_all_live_matches returned: "none" (nothing
\*                yet), "empty" (only empty lists) or "some" (a list with
\*                fixtures)
\*   trailing     how the closing _fetch_all_live_matches call was
\*                answered: "none", "list_cache", "ok" or "failed"
\*   outcome      "none", "running", "returned" or "raised"
LocInit ==
  [sport_idx |-> 0, live_events |-> <<>>, idx |-> 0, games |-> <<>>,
   result_sports |-> <<>>, total_games |-> 0,
   live_matches |-> <<>>, last |-> NoCall, n_calls |-> 0,
   pair_hits |-> FALSE, lists |-> "none",
   trailing |-> "none", outcome |-> "none"]

MLOff == [stage |-> "off", markets |-> <<>>, price_data_map |-> <<>>,
          has_draw |-> FALSE, result |-> <<>>]

\* no function is called on its own
FnOff == [name |-> "none", stage |-> "off"]

Init ==
  /\ now = 0
  /\ sports \in SportConfigs
  /\ open_events \in {IdsOf(el) : el \in EventLists}
  /\ _all_matches_cache = <<>>
  /\ _cache = <<>>
  /\ games_cache = [data |-> <<>>, last_updated |-> <<>>, is_fetching |-> FALSE]
  /\ pc = [t \in Threads |-> "idle"]
  /\ loc = [t \in Threads |-> LocInit]
  /\ polls = 0
  /\ ml = MLOff
  /\ fn = FnOff

\* time passes
Tick ==
  /\ now + TickSeconds <= MaxTime
  /\ now' = now + TickSeconds
  /\ UNCHANGED <<fixed, _all_matches_cache, _cache, games_cache, pc, loc, polls>>

\* app.py should_refresh_cache
should_refresh_cache(t) ==
  IF IsNone(games_cache.data) THEN TRUE
  ELSE IF IsNone(games_cache.last_updated) THEN TRUE
  ELSE t - The(games_cache.last_updated) >= CACHE_TTL_SECONDS

\* app.py refresh_cache: fetch_and_cache_data() passes its guard
\* (a request that finds is_fetching set returns and changes nothing)
refresh_cache(t) ==
  /\ pc[t] = "idle"
  /\ polls < MaxPolls
  /\ ~games_cache.is_fetching
  /\ pc' = [pc EXCEPT ![t] = "guard_passed"]
  /\ polls' = polls + 1
  /\ UNCHANGED <<fixed, now, _all_matches_cache, _cache, games_cache, loc>>

\* app.py get_live_games: the cache is stale and fetch_and_cache_data()
\* passes its guard
get_live_games(t) ==
  /\ pc[t] = "idle"
  /\ polls < MaxPolls
  /\ should_refresh_cache(now)
  /\ ~games_cache.is_fetching
  /\ pc' = [pc EXCEPT ![t] = "guard_passed"]
  /\ polls' = polls + 1
  /\ UNCHANGED <<fixed, now, _all_matches_cache, _cache, games_cache, loc>>

\* fetch_and_cache_data: is_fetching = True, and get_all_live_games begins
fetch_and_cache_data(t) ==
  /\ pc[t] = "guard_passed"
  /\ games_cache' = [games_cache EXCEPT !.is_fetching = TRUE]
  /\ loc' = [loc EXCEPT ![t] = [LocInit EXCEPT !.sport_idx = 1, !.outcome = "running"]]
  /\ pc' = [pc EXCEPT ![t] = "sport"]
  /\ UNCHANGED <<fixed, now, _all_matches_cache, _cache, polls>>

\* a variant of sport_entry that counts the games as found
sport_entry_games_found(live_events, games) ==
  [total_found |-> Len(games), total_live |-> Len(games), games |-> games]

\* get_all_live_games: result['sports'][sport_name]
sport_entry(live_events, games) ==
  [total_found |-> Len(live_events), total_live |-> Len(games), games |-> games]

\* get_all_live_games: after an event, the next event, or the sport's entry
\* of the result and the next sport, or the closing check
Advance(l) ==
  IF l.idx <= Len(l.live_events) THEN [l |-> l, pc |-> "event"]
  ELSE LET sport_name == sports[l.sport_idx]
           l2 == [l EXCEPT
                    !.result_sports =
                       (sport_name :> sport_entry(l.live_events, l.games)) @@ @,
                    !.total_games = @ + Len(l.games),
                    !.sport_idx = @ + 1]
       IN [l |-> l2, pc |-> IF l2.sport_idx > Len(sports) THEN "unmatched" ELSE "sport"]

\* a variant of after_raise that also drops the cached result
after_raise_clearing(cache) ==
  [data |-> <<>>, last_updated |-> <<>>, is_fetching |-> FALSE]

\* fetch_and_cache_data: the except and finally clauses
after_raise(cache) == [cache EXCEPT !.is_fetching = FALSE]

\* fetch_and_cache_data: an exception left get_all_live_games; the except
\* clause logs it and the finally clause resets is_fetching
CycleRaised(t, l) ==
  /\ loc' = [loc EXCEPT ![t] = [l EXCEPT !.outcome = "raised"]]
  /\ pc' = [pc EXCEPT ![t] = "idle"]
  /\ games_cache' = after_raise(games_cache)

\* get_all_live_games: get_live_events(sport) for the next sport
get_live_events_step(t) ==
  /\ pc[t] = "sport"
  /\ LET l == loc[t]
         live_events == get_live_events(sports[l.sport_idx], open_events, now)
         adv == Advance([l EXCEPT !.live_events = live_events, !.idx = 1, !.games = <<>>])
     IN /\ loc' = [loc EXCEPT ![t] = adv.l]
        /\ pc' = [pc EXCEPT ![t] = adv.pc]
  /\ UNCHANGED <<fixed, now, _all_matches_cache, _cache, games_cache, polls>>

\* get_all_live_games: process_event returned game_data for the current
\* event; call is the record of what it did
EventDone(t, l, call, game_data) ==
  LET adv == Advance([l EXCEPT
                        !.games = IF IsNone(game_data) THEN @ ELSE Append(@, The(game_data)),
                        !.idx = @ + 1,
                        !.last = [call EXCEPT !.game = ~IsNone(game_data)],
                        !.n_calls = @ + 1,
                        !.pair_hits = @ \/ call.src = "pair_cache"])
  IN /\ loc' = [loc EXCEPT ![t] = adv.l]
     /\ pc' = [pc EXCEPT ![t] = adv.pc]

\* _fetch_all_live_matches returned live_matches to the cycle
Fetched(l, live_matches) ==
  [l EXCEPT !.live_matches = live_matches,
            !.lists = IF live_matches # <<>> \/ @ = "some" THEN "some" ELSE "empty"]

\* process_event for the current event, up to the answer of the per-pair
\* cache or of the fixture-list cache, or up to the upstream request
process_event(t) ==
  /\ pc[t] = "event"
  /\ LET l == loc[t]
         id == l.live_events[l.idx]
         sport == sports[l.sport_idx]
         call == [NoCall EXCEPT !.event_id = id, !.sport = sport]
     IN \E teams \in {teams_of[id]} :
        IF ~has_teams(teams)
          THEN /\ EventDone(t, l, call, <<>>)
               /\ UNCHANGED <<_all_matches_cache, _cache>>
        ELSE \E key \in {key_of[teams]} :
        IF pair_cache_hit(_cache, key, now)
          THEN \E quote \in Quotes, live_data \in {Some(_cache[key].data)} :
               \E game_data \in {tail_of[id][sport][quote][live_data]} :
                 /\ EventDone(t, l, [call EXCEPT !.src = "pair_cache", !.pair = teams,
                                                 !.live_data = live_data,
                                                 !.entry_pair = _cache[key].pair],
                              game_data)
                 /\ UNCHANGED <<_all_matches_cache, _cache>>
        ELSE IF all_matches_cache_hit(_all_matches_cache, now)
          THEN \E quote \in Quotes,
                  live_data \in {found_in[teams][The(_all_matches_cache).matches]} :
               \E game_data \in {tail_of[id][sport][quote][live_data]} :
                 /\ EventDone(t, Fetched(l, The(_all_matches_cache).matches),
                              [call EXCEPT !.src = "list_cache", !.pair = teams,
                                           !.live_data = live_data],
                              game_data)
                 /\ _cache' = cache_write(_cache, key, teams, live_data, now)
                 /\ UNCHANGED _all_matches_cache
        ELSE /\ pc' = [pc EXCEPT ![t] = "list_inflight_event"]
             /\ UNCHANGED <<loc, _all_matches_cache, _cache>>
  /\ UNCHANGED <<fixed, now, games_cache, polls>>

\* process_event: the live-fixture endpoint answers the request that
\* _fetch_all_live_matches issued for the current event
list_response_event(t) ==
  /\ pc[t] = "list_inflight_event"
  /\ \E resp \in ListResponses, quote \in Quotes :
       LET l == loc[t]
           id == l.live_events[l.idx]
           sport == sports[l.sport_idx]
           answer == fetch_response(resp)
       IN \E teams \in {teams_of[id]} :
          \E live_data \in {found_in[teams][answer.matches]} :
          \E game_data \in {tail_of[id][sport][quote][live_data]} :
          \E call \in {[NoCall EXCEPT
                          !.event_id = id, !.sport = sport, !.src = "upstream",
                          !.pair = teams,
                          !.resp = IF resp.kind \in FailureKinds THEN "failed" ELSE "ok"]} :
          IF answer.raised
            THEN IF process_event_except.propagates
                   THEN /\ CycleRaised(t, [l EXCEPT !.last = [call EXCEPT !.err = TRUE]])
                        /\ UNCHANGED <<_all_matches_cache, _cache>>
                   ELSE /\ EventDone(t, l, [call EXCEPT !.err = TRUE],
                                     process_event_except.returns)
                        /\ UNCHANGED <<_all_matches_cache, _cache, games_cache>>
            ELSE /\ _all_matches_cache' = Some([matches |-> answer.matches, cached_at |-> now])
                 /\ _cache' = cache_write(_cache, key_of[teams], teams, live_data, now)
                 /\ EventDone(t, Fetched(l, answer.matches),
                              [call EXCEPT !.live_data = live_data], game_data)
                 /\ UNCHANGED games_cache
  /\ UNCHANGED <<fixed, now, polls>>

\* get_all_live_games returns result; fetch_and_cache_data stores it and
\* resets is_fetching.  The locals of the loops are gone.  (The result's
\* timestamp field, which nothing reads, is left out.)
CycleReturned(t, l) ==
  /\ loc' = [loc EXCEPT ![t] = [l EXCEPT !.outcome = "returned", !.sport_idx = 0,
                                         !.live_events = <<>>, !.idx = 0, !.games = <<>>,
                                         !.live_matches = <<>>, !.last = NoCall]]
  /\ pc' = [pc EXCEPT ![t] = "idle"]
  /\ games_cache' = [data |-> Some([sports |-> l.result_sports,
                                    total_games |-> l.total_games]),
                     last_updated |-> Some(now),
                     is_fetching |-> FALSE]

\* get_all_live_games: the closing check for fixtures no event matched
\* calls _fetch_all_live_matches
unmatched_check(t) ==
  /\ pc[t] = "unmatched"
  /\ IF all_matches_cache_hit(_all_matches_cache, now)
       THEN LET sofascore_matches == The(_all_matches_cache).matches
            IN CycleReturned(t, [Fetched(loc[t], sofascore_matches)
                                   EXCEPT !.trailing = "list_cache"])
       ELSE /\ pc' = [pc EXCEPT ![t] = "list_inflight_unmatched"]
            /\ UNCHANGED <<loc, games_cache>>
  /\ UNCHANGED <<fixed, now, _all_matches_cache, _cache, polls>>

\* get_all_live_games: the live-fixture endpoint answers the closing check;
\* a failure is caught and logged
list_response_unmatched(t) ==
  /\ pc[t] = "list_inflight_unmatched"
  /\ \E resp \in ListResponses :
       LET answer == fetch_response(resp)
           trailing == IF resp.kind \in FailureKinds THEN "failed" ELSE "ok"
       IN IF answer.raised
            THEN /\ CycleReturned(t, [loc[t] EXCEPT !.trailing = trailing])
                 /\ UNCHANGED _all_matches_cache
            ELSE /\ _all_matches_cache' = Some([matches |-> answer.matches, cached_at |-> now])
                 /\ CycleReturned(t, [Fetched(loc[t], answer.matches)
                                        EXCEPT !.trailing = trailing])
  /\ UNCHANGED <<fixed, now, _cache, polls>>

Next ==
  \/ Tick
  \/ \E t \in Threads : refresh_cache(t)
  \/ \E t \in Threads : get_live_games(t)
  \/ \E t \in Threads : fetch_and_cache_data(t)
  \/ \E t \in Threads : get_live_events_step(t)
  \/ \E t \in Threads : process_event(t)
  \/ \E t \in Threads : list_response_event(t)
  \/ \E t \in Threads : unmatched_check(t)
  \/ \E t \in Threads : list_response_unmatched(t)

Spec == Init /\ [][Next]_vars

\* ------------------------------------------------------------------------
\* extract_moneyline applied to bounded inputs
\* ------------------------------------------------------------------------

\* no poll cycle runs
machine == <<now, sports, open_events, _all_matches_cache, _cache, games_cache, pc, loc, polls>>
MachineOff ==
  /\ now = 0
  /\ sports = <<"Soccer">>
  /\ open_events = <<>>
  /\ _all_matches_cache = <<>>
  /\ _cache = <<>>
  /\ games_cache = [data |-> <<>>, last_updated |-> <<>>, is_fetching |-> FALSE]
  /\ pc = [t \in Threads |-> "idle"]
  /\ loc = [t \in Threads |-> LocInit]
  /\ polls = 0

InitML ==
  /\ MachineOff
  /\ fn = FnOff
  /\ \E markets \in MarketLists, price_data_map \in PriceMaps, has_draw \in BOOLEAN :
       ml = [stage |-> "input", markets |-> markets, price_data_map |-> price_data_map,
             has_draw |-> has_draw, result |-> <<>>]

\* MarketExtractor.extract_moneyline(markets, price_data_map, has_draw)
extract_moneyline_call ==
  /\ ml.stage = "input"
  /\ ml' = [ml EXCEPT !.stage = "done",
                      !.result = extract_moneyline(ml.markets, ml.price_data_map, ml.has_draw)]
  /\ UNCHANGED <<machine, fn>>

NextML == extract_moneyline_call

SpecML == InitML /\ [][NextML]_vars

\* ------------------------------------------------------------------------
\* app.py alone: the refresh guard and the cached result, over every way a
\* poll cycle can end
\* ------------------------------------------------------------------------

\* what tracker.get_all_live_games() can return to fetch_and_cache_data
ServeFound == {0, 1, 2}
ServeResults ==
  { ("Soccer" :> [total_found |-> n, total_live |-> 0, games |-> <<>>]) : n \in ServeFound }

InitServe ==
  /\ MachineOff
  /\ ml = MLOff
  /\ fn = FnOff

\* fetch_and_cache_data: tracker.get_all_live_games() returns
get_all_live_games_returns(t) ==
  /\ pc[t] = "sport"
  /\ \E result_sports \in ServeResults :
       CycleReturned(t, [loc[t] EXCEPT !.result_sports = result_sports])
  /\ UNCHANGED <<fixed, now, _all_matches_cache, _cache, polls>>

\* fetch_and_cache_data: tracker.get_all_live_games() raises (get_events
\* lets an error that is no RequestException escape, and nothing below
\* fetch_and_cache_data catches it)
get_all_live_games_raises(t) ==
  /\ pc[t] = "sport"
  /\ CycleRaised(t, loc[t])
  /\ UNCHANGED <<fixed, now, _all_matches_cache, _cache, polls>>

NextServe ==
  \/ Tick
  \/ \E t \in Threads : refresh_cache(t)
  \/ \E t \in Threads : get_live_games(t)
  \/ \E t \in Threads : fetch_and_cache_data(t)
  \/ \E t \in Threads : get_all_live_games_returns(t)
  \/ \E t \in Threads : get_all_live_games_raises(t)

SpecServe == InitServe /\ [][NextServe]_vars


\* ------------------------------------------------------------------------
\* process_event applied to bounded inputs: an event, a sport, and what the
\* score provider answers for the event's teams
\* ------------------------------------------------------------------------

\* process_event with get_live_game_data answering live_data and
\* get_bulk_price_data answering quote for every token
process_event_of(event, sport, live_data, quote) ==
  LET teams == extract_teams_from_title(event.title)
  IN IF ~has_teams(teams) THEN <<>>
     ELSE process_event_tail(event, sport, teams[1], teams[2], live_data, quote)

\* the orders in which the market platform can list three sub-markets
Orders == {o \in [1..3 -> 1..3] : \A j, k \in 1..3 : j # k => o[j] # o[k]}
Listed(markets, o) == [j \in 1..3 |-> markets[o[j]]]

GameTitles == { <<"A","j","a","x"," ","F","C"," ","v","s","."," ","L","y","o","n">>, <<"L","y","o","n"," ","v","s"," ","A","j","a","x"," ","F","C">>, <<"A","j","a","x"," ","F","C"," ","-"," ","L","y","o","n">> }
GameEvents ==
  {[id |-> 1, title |-> title, closed |-> FALSE,
    startTime |-> At(0), eventDate |-> NoTimeField,
    markets |-> Listed(WinDrawWin(<<"A","j","a","x"," ","F","C">>, <<"L","y","o","n">>), o)] :
     title \in GameTitles, o \in Orders}
GameLiveData ==
  { <<>>,
    Some([home_team |-> <<"A","j","a","x">>, away_team |-> <<"L","y","o","n">>, event_id |-> 11,
          status |-> <<"1","s","t"," ","h","a","l","f">>]),
    Some([home_team |-> <<"A","j","a","x">>, away_team |-> <<"L","y","o","n">>, event_id |-> 11,
          status |-> <<"E","n","d","e","d">>]) }

InitGame ==
  /\ MachineOff
  /\ ml = MLOff
  /\ \E event \in GameEvents, sport \in SportNames, live_data \in GameLiveData :
       fn = [name |-> "process_event", stage |-> "input", event |-> event,
             sport |-> sport, live_data |-> live_data, result |-> <<>>]

\* LiveSportsTracker.process_event(event, sport)
process_event_call ==
  /\ fn.name = "process_event"
  /\ fn.stage = "input"
  /\ \E quote \in Quotes :
       fn' = [fn EXCEPT !.stage = "done",
                        !.result = process_event_of(fn.event, fn.sport, fn.live_data, quote)]
  /\ UNCHANGED <<machine, ml>>

NextGame == process_event_call

SpecGame == InitGame /\ [][NextGame]_vars

\* ------------------------------------------------------------------------
\* extract_teams_from_title applied to event titles
\* ------------------------------------------------------------------------

\* titles: two team names around a separator in some letter case (or around
\* a dash), with or without one of the market-type suffixes
TitleHomes == { <<"R","e","a","l"," ","M","a","d","r","i","d">>, <<"A","j","a","x">> }
TitleAways == { <<"B","a","r","c","e","l","o","n","a">>, <<"L","y","o","n">> }
TitleSeparators == { <<" ","v","s","."," ">>, <<" ","v","s"," ">>, <<" ","v"," ">>, <<" ","V","S"," ">>, <<" ","V","s","."," ">>, <<" ","V"," ">>, <<" ","-"," ">>, <<" ","v","s">> }
TitleEnds == { <<>> } \cup Range(title_suffixes)
Titles == { h \o s \o a \o e :
              h \in TitleHomes, s \in TitleSeparators, a \in TitleAways, e \in TitleEnds }

InitTitle ==
  /\ MachineOff
  /\ ml = MLOff
  /\ \E title \in Titles :
       fn = [name |-> "extract_teams_from_title", stage |-> "input",
             title |-> title, result |-> <<>>]

\* Sport.extract_teams_from_title(title)
extract_teams_from_title_call ==
  /\ fn.name = "extract_teams_from_title"
  /\ fn.stage = "input"
  /\ fn' = [fn EXCEPT !.stage = "done", !.result = extract_teams_from_title(fn.title)]
  /\ UNCHANGED <<machine, ml>>

NextTitle == extract_teams_from_title_call

SpecTitle == InitTitle /\ [][NextTitle]_vars

\* ------------------------------------------------------------------------
\* is_sport_event applied to titles and sub-market lists
\* ------------------------------------------------------------------------

SportTitles == { <<"A","j","a","x"," ","F","C"," ","v","s"," ","L","y","o","n">>, <<"R","e","a","l"," ","M","a","d","r","i","d"," ","v","s"," ","B","a","r","c","e","l","o","n","a">>, <<"A","j","a","x"," ","v","s"," ","L","y","o","n">>,
                 <<"T","i","g","e","r","s"," ","v","s"," ","L","i","o","n","s">>, <<"T","i","g","e","r","s"," ","F","C"," ","v","s"," ","L","y","o","n">>, <<"D","o","t","a",":"," ","A","j","a","x"," ","v","s"," ","L","y","o","n">>,
                 <<"A","j","a","x"," ","v","s"," ","L","y","o","n"," ","-"," ","M","o","r","e"," ","M","a","r","k","e","t","s">>, <<"S","h","a","r","k","s"," ","v","s"," ","K","i","n","g","s">>,
                 <<"U","F","C"," ","3","0","0",":"," ","A","j","a","x"," ","v","s"," ","L","y","o","n">>, <<"M","a","n","c","h","e","s","t","e","r"," ","U","n","i","t","e","d"," ","v","s"," ","T","u","l","s","a">> }

\* outcomes as a list or as a JSON string: three with a draw or a tie, three
\* without, four with a draw, two
SportOutcomes == { YesNo, ThreeWay,
                   [kind |-> "json", val |-> << <<"H","o","m","e">>, <<"T","i","e">>, <<"A","w","a","y">> >>],
                   [kind |-> "list", val |-> << <<"A">>, <<"B">>, <<"C">> >>],
                   [kind |-> "list", val |-> << <<"A">>, <<"D","r","a","w">>, <<"B">>, <<"C">> >>] }
SportMarkets ==
  { <<>> } \cup { << [outcomes |-> o] >> : o \in SportOutcomes }
           \cup { << [outcomes |-> YesNo], [outcomes |-> ThreeWay] >> }

InitSport ==
  /\ MachineOff
  /\ ml = MLOff
  /\ \E title \in SportTitles, markets \in SportMarkets, sport \in SportNames :
       fn = [name |-> "is_sport_event", stage |-> "input", sport |-> sport,
             event |-> [title |-> title, markets |-> markets], result |-> FALSE]

\* sport.is_sport_event(event)
is_sport_event_call ==
  /\ fn.name = "is_sport_event"
  /\ fn.stage = "input"
  /\ fn' = [fn EXCEPT !.stage = "done", !.result = is_sport_event(fn.sport, fn.event)]
  /\ UNCHANGED <<machine, ml>>

NextSport == is_sport_event_call

SpecSport == InitSport /\ [][NextSport]_vars

\* ------------------------------------------------------------------------
\* get_price_data applied to the answers of the spread and midpoint
\* endpoints
\* ------------------------------------------------------------------------

\* the answers of a price endpoint: the request fails, the status is not
\* 200, the body is not JSON, the JSON lacks the field, the field is null,
\* or the field holds a number (in hundredths)
PriceFailures == {"timeout", "connection", "status", "invalid_json"}
PriceValues == {0, 2, 50}
PriceResponses ==
  {[kind |-> k, val |-> 0] : k \in PriceFailures \cup {"missing_field", "null_field"}}
    \cup {[kind |-> "value", val |-> v] : v \in PriceValues}

\* float(response.json().get(field, 0)) inside try / except: pass, after
\* "if response.status_code == 200"
price_field(resp) ==
  IF resp.kind \in PriceFailures THEN <<>>
  ELSE IF resp.kind = "missing_field" THEN Some(0)
  ELSE IF resp.kind = "null_field" THEN <<>>
  ELSE Some(resp.val)

\* PolymarketAPIClient.get_price_data
get_price_data(spread_response, price_response) ==
  [price |-> price_field(price_response), spread |-> price_field(spread_response)]

InitPrice ==
  /\ MachineOff
  /\ ml = MLOff
  /\ \E spread_response \in PriceResponses, price_response \in PriceResponses :
       fn = [name |-> "get_price_data", stage |-> "input",
             spread_response |-> spread_response, price_response |-> price_response,
             result |-> NoPriceData]

\* PolymarketAPIClient.get_price_data(token_id)
get_price_data_call ==
  /\ fn.name = "get_price_data"
  /\ fn.stage = "input"
  /\ fn' = [fn EXCEPT !.stage = "done",
                      !.result = get_price_data(fn.spread_response, fn.price_response)]
  /\ UNCHANGED <<machine, ml>>

NextPrice == get_price_data_call

SpecPrice == InitPrice /\ [][NextPrice]_vars

\* ------------------------------------------------------------------------
\* The loop of get_live_game_data applied to bounded fixture lists
\* ------------------------------------------------------------------------

\* the longest fixture list handed to the loop
MaxFixtures == 3

FxLyonAjax == [id |-> 14, homeTeam |-> <<"L","y","o","n">>, awayTeam |-> <<"A","j","a","x">>, status |-> Some(<<"1","s","t"," ","h","a","l","f">>)]
FxAjaxWild == [id |-> 15, homeTeam |-> <<"A","j","a","x">>, awayTeam |-> <<"W","i","l","d">>, status |-> Some(<<"1","s","t"," ","h","a","l","f">>)]
FxAjaxLate == [id |-> 16, homeTeam |-> <<"A","F","C"," ","A","j","a","x">>, awayTeam |-> <<"L","y","o","n">>, status |-> Some(<<"2","n","d"," ","h","a","l","f">>)]
LookupFixtures == {FxNoId, FxAjax, FxLyonAjax, FxAjaxWild, FxAjaxLate, FxKings}
LookupLists == UNION {[1..n -> LookupFixtures] : n \in 0..MaxFixtures}
LookupPairs == { << <<"A","j","a","x"," ","F","C">>, <<"L","y","o","n">> >>, << <<"L","y","o","n">>, <<"A","j","a","x"," ","F","C">> >>,
                 << <<"R","e","a","l"," ","K","i","n","g","s">>, <<"W","i","l","d">> >> }

InitLookup ==
  /\ MachineOff
  /\ ml = MLOff
  /\ \E pair \in LookupPairs, live_matches \in LookupLists :
       fn = [name |-> "get_live_game_data", stage |-> "input",
             home_team |-> pair[1], away_team |-> pair[2],
             live_matches |-> live_matches, result |-> <<>>]

\* SofaScoreProvider.get_live_game_data(home_team, away_team) from the
\* loop on, with _fetch_all_live_matches having returned live_matches
get_live_game_data_call ==
  /\ fn.name = "get_live_game_data"
  /\ fn.stage = "input"
  /\ fn' = [fn EXCEPT !.stage = "done",
                      !.result = FindMatch(fn.home_team, fn.away_team, fn.live_matches, 1)]
  /\ UNCHANGED <<machine, ml>>

NextLookup == get_live_game_data_call

SpecLookup == InitLookup /\ [][NextLookup]_vars

\* ------------------------------------------------------------------------
\* _normalize_team_name and _teams_match applied to bounded names
\* ------------------------------------------------------------------------

\* the most words a name has
MaxWords == 3

\* the names of one to MaxWords words over a vocabulary
NamesOver(Vocabulary) ==
  {JoinWords(ws) : ws \in UNION {[1..n -> Vocabulary] : n \in 1..MaxWords}}

\* words that are suffix terms, one that is also a prefix, and words that
\* are not terms but contain one
NormalizeWords == { <<"R","a","n","g","e","r","s">>, <<"R","e","s","e","r","v","e","s">>, <<"f","c">>, <<"x","f","c">>, <<"c","i","t","y">>, <<"a","c">> }
NormalizeNames == NamesOver(NormalizeWords)

InitNormalize ==
  /\ MachineOff
  /\ ml = MLOff
  /\ \E team_name \in NormalizeNames :
       fn = [name |-> "_normalize_team_name", stage |-> "input",
             team_name |-> team_name, result |-> <<>>, again |-> <<>>]

\* SofaScoreProvider._normalize_team_name(team_name)
_normalize_team_name_call ==
  /\ fn.name = "_normalize_team_name"
  /\ fn.stage = "input"
  /\ fn' = [fn EXCEPT !.stage = "done", !.result = _normalize_team_name(fn.team_name)]
  /\ UNCHANGED <<machine, ml>>

\* SofaScoreProvider._normalize_team_name applied to its own result
_normalize_team_name_again ==
  /\ fn.name = "_normalize_team_name"
  /\ fn.stage = "done"
  /\ fn' = [fn EXCEPT !.stage = "again", !.again = _normalize_team_name(fn.result)]
  /\ UNCHANGED <<machine, ml>>

NextNormalize == _normalize_team_name_call \/ _normalize_team_name_again

SpecNormalize == InitNormalize /\ [][NextNormalize]_vars

\* a club name, two other words and a stopword; besides the names over
\* these words a missing name, two names that are suffix terms only, and a
\* club name
MatchWords == { <<"a","j","a","x">>, <<"b">>, <<"c">>, <<"d","e">> }
MatchNames == NamesOver(MatchWords) \cup { <<>>, <<"F","C">>, <<"C","i","t","y">>, <<"L","y","o","n">> }

InitMatch ==
  /\ MachineOff
  /\ ml = MLOff
  /\ \E team1 \in MatchNames, team2 \in MatchNames :
       fn = [name |-> "_teams_match", stage |-> "input",
             team1 |-> team1, team2 |-> team2, result |-> FALSE, swapped |-> FALSE]

\* SofaScoreProvider._teams_match(team1, team2)
_teams_match_call ==
  /\ fn.name = "_teams_match"
  /\ fn.stage = "input"
  /\ fn' = [fn EXCEPT !.stage = "done", !.result = _teams_match(fn.team1, fn.team2)]
  /\ UNCHANGED <<machine, ml>>

\* SofaScoreProvider._teams_match(team2, team1)
_teams_match_swapped ==
  /\ fn.name = "_teams_match"
  /\ fn.stage = "done"
  /\ fn' = [fn EXCEPT !.stage = "both", !.swapped = _teams_match(fn.team2, fn.team1)]
  /\ UNCHANGED <<machine, ml>>

NextMatch == _teams_match_call \/ _teams_match_swapped

SpecMatch == InitMatch /\ [][NextMatch]_vars

\* ------------------------------------------------------------------------
\* fetch_game_momentum applied to the answers of the graph, statistics and
\* comments endpoints
\* ------------------------------------------------------------------------

\* the most points a momentum graph has
MaxGraphPoints == 6

\* the graph endpoint: a failure (<<>> stands for a failed request, a
\* status other than 200 and an answer without points alike) or the values
\* of the graph points
GraphValues == {-40, 40}
GraphAnswers ==
  UNION {[1..n -> GraphValues] : n \in 0..MaxGraphPoints}
    \cup { <<15>>, <<16>>, <<-15>>, <<-16>>, <<40, 15, 15, 15, 15, 15>> }

\* the statistics of period ALL: for each key the (home, away) values or
\* None when the item is missing
PossessionAnswers == { <<>>, Some(<<60, 40>>), Some(<<40, 60>>), Some(<<55, 45>>) }
AttacksAnswers == { <<>>, Some(<<20, 10>>), Some(<<10, 20>>), Some(<<10, 10>>) }
DangerousAnswers == { <<>>, Some(<<5, 3>>), Some(<<3, 5>>) }

\* int(x / y) for y > 0: the quotient truncated towards zero
IntDiv(x, y) == IF x >= 0 THEN x \div y ELSE -((-x) \div y)

\* a variant of recent_points_of that takes every point of the graph
recent_points_of_all(graph_points) == graph_points

\* graph_points[-5:] if len(graph_points) >= 5 else graph_points
recent_points_of(graph_points) ==
  IF Len(graph_points) >= 5
    THEN SubSeq(graph_points, Len(graph_points) - 4, Len(graph_points))
    ELSE graph_points

\* sum of value * (i + 1) over the recent points
RECURSIVE weighted_sum_of(_, _)
weighted_sum_of(recent_points, n) ==
  IF n = 0 THEN 0 ELSE recent_points[n] * n + weighted_sum_of(recent_points, n - 1)

\* fetch_game_momentum: momentum_value from the graph points
momentum_value_of(graph_points) ==
  LET recent_points == recent_points_of(graph_points)
      total_weight == (Len(recent_points) * (Len(recent_points) + 1)) \div 2
  IN IF total_weight > 0
       THEN IntDiv(weighted_sum_of(recent_points, Len(recent_points)), total_weight)
       ELSE 0

\* fetch_game_momentum: momentum_direction from momentum_value
graph_direction(momentum_value) ==
  IF momentum_value > 15 THEN "home"
  ELSE IF momentum_value < -15 THEN "away"
  ELSE "neutral"

\* _calculate_momentum_direction: what one statistic adds to the scores, in
\* tenths; lead says how far home must be ahead
factor(stat, lead, points, scores) ==
  IF IsNone(stat) THEN scores
  ELSE LET home == The(stat)[1]
           away == The(stat)[2]
       IN [home_score |-> scores.home_score + (IF home > away + lead THEN points ELSE 0),
           away_score |-> scores.away_score
                            + (IF ~(home > away + lead) /\ away > home + lead
                                 THEN points ELSE 0),
           total_factors |-> scores.total_factors + 1]

\* SofaScoreProvider._calculate_momentum_direction; x > y * 1.2 is
\* 10 * x > 12 * y
_calculate_momentum_direction(possession, attacks, dangerous_attacks) ==
  LET scores == factor(dangerous_attacks, 0, 20,
                  factor(attacks, 0, 15,
                    factor(possession, 10, 10,
                           [home_score |-> 0, away_score |-> 0, total_factors |-> 0])))
  IN IF scores.total_factors = 0 THEN "neutral"
     ELSE IF 10 * scores.home_score > 12 * scores.away_score THEN "home"
     ELSE IF 10 * scores.away_score > 12 * scores.home_score THEN "away"
     ELSE "neutral"

\* fetch_game_momentum: "if momentum.momentum_direction is None and
\* momentum.possession_home is not None"
needs_vote(momentum_direction, possession) ==
  IsNone(momentum_direction) /\ ~IsNone(possession)

\* SofaScoreProvider._has_momentum_data
_has_momentum_data(momentum) ==
  \/ ~IsNone(momentum.possession)
  \/ ~IsNone(momentum.attacks)
  \/ ~IsNone(momentum.dangerous_attacks)
  \/ ~IsNone(momentum.momentum_value)
  \/ momentum.recent_comments

\* fetch_game_momentum: the GameMomentum before the final test.  An answer
\* of the graph endpoint without points (or a failed one) is <<>>;
\* value_is_null says that a point of the graph holds null where a number
\* belongs, so that value * weight raises a TypeError, which the except
\* clause swallows after momentum_graph was assigned.
momentum_of(graph_points, value_is_null, possession, attacks, dangerous_attacks, comments) ==
  LET momentum_value == IF graph_points = <<>> \/ value_is_null THEN <<>>
                        ELSE Some(momentum_value_of(graph_points))
      from_graph == IF IsNone(momentum_value) THEN <<>>
                    ELSE Some(graph_direction(The(momentum_value)))
      momentum_direction ==
        IF needs_vote(from_graph, possession)
          THEN Some(_calculate_momentum_direction(possession, attacks, dangerous_attacks))
          ELSE from_graph
  IN [momentum_graph |-> graph_points,
      possession |-> possession, attacks |-> attacks,
      dangerous_attacks |-> dangerous_attacks,
      momentum_direction |-> momentum_direction,
      momentum_value |-> momentum_value,
      recent_comments |-> comments]

\* SofaScoreProvider.fetch_game_momentum: None or the GameMomentum
fetch_game_momentum(momentum) ==
  IF _has_momentum_data(momentum) THEN Some(momentum) ELSE <<>>

InitMomentum ==
  /\ MachineOff
  /\ ml = MLOff
  /\ \E graph_points \in GraphAnswers, value_is_null \in BOOLEAN,
        possession \in PossessionAnswers,
        attacks \in AttacksAnswers, dangerous_attacks \in DangerousAnswers,
        comments \in BOOLEAN :
       /\ value_is_null => graph_points # <<>>
       /\ fn = [name |-> "fetch_game_momentum", stage |-> "input",
                graph_points |-> graph_points, value_is_null |-> value_is_null,
                possession |-> possession,
                attacks |-> attacks, dangerous_attacks |-> dangerous_attacks,
                comments |-> comments, momentum |-> <<>>, result |-> <<>>]

\* SofaScoreProvider.fetch_game_momentum(event_id)
fetch_game_momentum_call ==
  /\ fn.name = "fetch_game_momentum"
  /\ fn.stage = "input"
  /\ \E momentum \in {momentum_of(fn.graph_points, fn.value_is_null, fn.possession,
                                   fn.attacks, fn.dangerous_attacks, fn.comments)} :
       fn' = [fn EXCEPT !.stage = "done", !.momentum = momentum,
                        !.result = fetch_game_momentum(momentum)]
  /\ UNCHANGED <<machine, ml>>

NextMomentum == fetch_game_momentum_call

SpecMomentum == InitMomentum /\ [][NextMomentum]_vars

\* ------------------------------------------------------------------------
\* get_events: the pagination loop against a bounded upstream
\* ------------------------------------------------------------------------

MAX_EVENTS_PER_REQUEST == 100
MAX_TOTAL_EVENTS == 2000

\* how many open events the market platform holds (events are numbered from
\* 1), and the limit get_events is called with (None is the default)
UpstreamCounts == {0, 1, 100, 150, 300, 2000, 2100}
LimitArgs == { <<>>, Some(50) }

\* the answers to one page request: a page, a failed request (timeout,
\* connection error, HTTP error status: a RequestException), a 200 whose
\* body is not JSON, or a 200 whose JSON is a number and no list
PageAnswers == {"ok", "timeout", "connection", "http_error", "invalid_json", "not_a_list"}

\* the page the upstream serves at an offset
page_at(upstream, offset, limit) ==
  LET left == upstream - offset
      k == IF left <= 0 THEN 0 ELSE IF left < limit THEN left ELSE limit
  IN [i \in 1..k |-> offset + i]

InitEvents ==
  /\ MachineOff
  /\ ml = MLOff
  /\ \E upstream \in UpstreamCounts, limit \in LimitArgs :
       fn = [name |-> "get_events", stage |-> "loop", upstream |-> upstream,
             limit |-> IF IsNone(limit) THEN MAX_EVENTS_PER_REQUEST ELSE The(limit),
             offset |-> 0, all_events |-> <<>>, requests |-> 0, last |-> "none"]

\* get_events: one pass of the while loop.  response.json() of a body that
\* is not JSON raises a RequestException in the newer releases of the
\* requests library and a ValueError in the older ones; extend() of a
\* number raises a TypeError; only RequestException is caught.
get_events_request ==
  /\ fn.name = "get_events"
  /\ fn.stage = "loop"
  /\ fn.offset < MAX_TOTAL_EVENTS
  /\ \E answer \in PageAnswers, json_error_is_request_exception \in BOOLEAN :
       LET events == page_at(fn.upstream, fn.offset, fn.limit)
           asked == [fn EXCEPT !.requests = @ + 1, !.last = answer]
       IN fn' = IF answer = "ok"
                  THEN IF events = <<>>
                         THEN [asked EXCEPT !.stage = "returned"]
                         ELSE [asked EXCEPT !.all_events = @ \o events,
                                            !.offset = @ + fn.limit]
                ELSE IF answer \in {"timeout", "connection", "http_error"}
                  THEN [asked EXCEPT !.stage = "returned"]
                ELSE IF answer = "invalid_json"
                  THEN [asked EXCEPT !.stage = IF json_error_is_request_exception
                                                 THEN "returned" ELSE "raised"]
                ELSE [asked EXCEPT !.stage = "raised"]
  /\ UNCHANGED <<machine, ml>>

\* get_events: the while condition fails, return all_events
get_events_return ==
  /\ fn.name = "get_events"
  /\ fn.stage = "loop"
  /\ fn.offset >= MAX_TOTAL_EVENTS
  /\ fn' = [fn EXCEPT !.stage = "returned"]
  /\ UNCHANGED <<machine, ml>>

NextEvents == get_events_request \/ get_events_return

SpecEvents == InitEvents /\ [][NextEvents]_vars

\* ------------------------------------------------------------------------
\* check_health and _fetch_all_live_matches against one answer of the
\* live-fixture endpoint
\* ------------------------------------------------------------------------

\* the fixture-list cache a call can find: nothing, or a list with its time
FetchCaches ==
  { <<>> } \cup { Some([matches |-> fl, cached_at |-> c]) :
                    fl \in FixtureLists, c \in {0, TickSeconds} }
FetchTimes == { k * TickSeconds : k \in 1..(MaxTime \div TickSeconds) }

\* check_health: a failed request, a status other than 200, invalid JSON
\* and a JSON without 'events' all end in an Exception; otherwise True
check_health(resp) ==
  IF resp.kind \in FailureKinds THEN [raised |-> TRUE, result |-> FALSE]
  ELSE IF resp.kind = "missing_events" THEN [raised |-> TRUE, result |-> FALSE]
  ELSE [raised |-> FALSE, result |-> TRUE]

InitFetch ==
  /\ MachineOff
  /\ ml = MLOff
  /\ \/ fn = [name |-> "check_health", stage |-> "input", resp |-> "none",
              raised |-> FALSE, result |-> FALSE]
     \/ \E cache \in FetchCaches, t \in FetchTimes :
          fn = [name |-> "_fetch_all_live_matches", stage |-> "input", t |-> t,
                cache_before |-> cache, cache |-> cache, src |-> "none",
                resp |-> "none", raised |-> FALSE, result |-> <<>>]

\* SofaScoreProvider.check_health()
check_health_call ==
  /\ fn.name = "check_health"
  /\ fn.stage = "input"
  /\ \E resp \in ListResponses :
       fn' = [fn EXCEPT !.stage = "done", !.resp = resp.kind,
                        !.raised = check_health(resp).raised,
                        !.result = check_health(resp).result]
  /\ UNCHANGED <<machine, ml>>

\* SofaScoreProvider._fetch_all_live_matches() at time fn.t
_fetch_all_live_matches_call ==
  /\ fn.name = "_fetch_all_live_matches"
  /\ fn.stage = "input"
  /\ IF all_matches_cache_hit(fn.cache, fn.t)
       THEN fn' = [fn EXCEPT !.stage = "done", !.src = "cache",
                             !.result = The(fn.cache).matches]
       ELSE \E resp \in ListResponses :
              LET answer == fetch_response(resp)
              IN fn' = [fn EXCEPT
                          !.stage = "done", !.src = "upstream", !.resp = resp.kind,
                          !.raised = answer.raised,
                          !.result = answer.matches,
                          !.cache = IF answer.raised THEN @
                                    ELSE Some([matches |-> answer.matches,
                                               cached_at |-> fn.t])]
  /\ UNCHANGED <<machine, ml>>

NextFetch == check_health_call \/ _fetch_all_live_matches_call

SpecFetch == InitFetch /\ [][NextFetch]_vars

\* ------------------------------------------------------------------------
\* _calculate_game_minute applied to clock readings
\* ------------------------------------------------------------------------

\* the clock and the period start are timestamps in seconds, a quarter of
\* an hour apart; the clock is read half a minute later
MaxQuarters == 5
MinuteStarts == { <<>> } \cup { Some(1000 + 900 * k) : k \in 0..MaxQuarters }
MinuteNows == { 1030 + 900 * k : k \in 0..MaxQuarters }
MinuteStatuses == { <<"1","s","t"," ","h","a","l","f">>, <<"F","i","r","s","t"," ","h","a","l","f">>, <<"2","n","d"," ","h","a","l","f">>, <<"S","e","c","o","n","d"," ","h","a","l","f">>,
                    <<"H","a","l","f","t","i","m","e">>, <<"E","x","t","r","a"," ","t","i","m","e">> }

\* min(elapsed_minutes, 45)
min_45(elapsed_minutes) == IF elapsed_minutes < 45 THEN elapsed_minutes ELSE 45

\* SofaScoreProvider._calculate_game_minute; period_start is
\* time_data.get('currentPeriodStartTimestamp'), status is
\* status_description, t is now
_calculate_game_minute(period_start, status, t) ==
  IF IsNone(period_start) \/ The(period_start) = 0 THEN <<>>
  ELSE LET elapsed_seconds == t - The(period_start)
           elapsed_minutes == IntDiv(elapsed_seconds, 60)
           status_lower == Lower(status)
       IN IF Contains(status_lower, <<"1","s","t">>) \/ Contains(status_lower, <<"f","i","r","s","t">>)
            THEN Some(min_45(elapsed_minutes))
          ELSE IF Contains(status_lower, <<"2","n","d">>) \/ Contains(status_lower, <<"s","e","c","o","n","d">>)
            THEN Some(45 + min_45(elapsed_minutes))
          ELSE IF Contains(status_lower, <<"h","a","l","f","t","i","m","e">>) THEN <<>>
          ELSE IF elapsed_minutes >= 0 THEN Some(elapsed_minutes) ELSE <<>>

InitMinute ==
  /\ MachineOff
  /\ ml = MLOff
  /\ \E period_start \in MinuteStarts, status \in MinuteStatuses, t \in MinuteNows :
       fn = [name |-> "_calculate_game_minute", stage |-> "input",
             period_start |-> period_start, status_description |-> status,
             t |-> t, result |-> <<>>]

\* SofaScoreProvider._calculate_game_minute(time_data, status_description)
_calculate_game_minute_call ==
  /\ fn.name = "_calculate_game_minute"
  /\ fn.stage = "input"
  /\ fn' = [fn EXCEPT !.stage = "done",
                      !.result = _calculate_game_minute(fn.period_start,
                                                        fn.status_description, fn.t)]
  /\ UNCHANGED <<machine, ml>>

NextMinute == _calculate_game_minute_call

SpecMinute == InitMinute /\ [][NextMinute]_vars
\* ------------------------------------------------------------------------
\* Properties
\* ------------------------------------------------------------------------

Inflight == {"list_inflight_event", "list_inflight_unmatched"}

\* thread t takes the step
Moved(t) == pc'[t] # pc[t] \/ loc'[t] # loc[t]

\* the games of a result, over all its sports
GamesOfResult(result_sports) ==
  UNION {Range(result_sports[s].games) : s \in DOMAIN result_sports}

\* every game a cycle holds or has returned
AllGames ==
  UNION {Range(loc[t].games) \cup GamesOfResult(loc[t].result_sports) : t \in Threads}
    \cup (IF IsNone(games_cache.data) THEN {}
          ELSE GamesOfResult(The(games_cache.data).sports))

\* the phase labels of the fixtures, and those that, lower-cased, contain a
\* terminal term
PhaseLabels == {The(ld).status : ld \in LiveDataOpts \ {<<>>}}
TerminalLabels ==
  {status \in PhaseLabels :
     \E term \in { <<"f","i","n","i","s","h","e","d">>, <<"e","n","d","e","d">>, <<"f","u","l","l"," ","t","i","m","e">>, <<"a","f","t","e","r"," ","e","x","t","r","a"," ","t","i","m","e">>,
                   <<"a","f","t","e","r"," ","p","e","n","a","l","t","i","e","s">> } : Contains(Lower(status), term)}

\* C1: an event whose matched fixture has a terminal phase label gives no
\* game: no game of any cycle or result carries a terminal phase label, and
\* a process_event call whose lookup returned such a fixture returned no game
C1_NoGameForFinishedFixture ==
  /\ \A g \in AllGames : The(g.live_data).status \notin TerminalLabels
  /\ \A t \in Threads :
       (/\ loc[t].last.live_data # <<>>
        /\ The(loc[t].last.live_data).status \in TerminalLabels)
         => ~loc[t].last.game

\* a lookup answered by the upstream list matched a fixture whose phase is
\* terminal, and process_event returned no game
C1_Witness ==
  \E t \in Threads :
    /\ loc[t].last.src = "upstream"
    /\ loc[t].last.live_data # <<>>
    /\ The(loc[t].last.live_data).status \in TerminalLabels
    /\ ~loc[t].last.game

\* C2: within one poll cycle no event id appears twice across all sports'
\* game lists
C2_EventInAtMostOneGame ==
  \A t \in Threads :
    LET rs == loc[t].result_sports IN
    /\ \A s \in DOMAIN rs : \A j, k \in 1..Len(rs[s].games) :
         j # k => rs[s].games[j].event_id # rs[s].games[k].event_id
    /\ \A s1, s2 \in DOMAIN rs :
         s1 # s2 => \A g1 \in Range(rs[s1].games), g2 \in Range(rs[s2].games) :
                      g1.event_id # g2.event_id

total_found_of(result_sports, s) ==
  IF s \in DOMAIN result_sports THEN result_sports[s].total_found ELSE 0

no_games(l) ==
  /\ l.total_games = 0
  /\ \A s \in DOMAIN l.result_sports : l.result_sports[s].games = <<>>
  /\ DOMAIN l.result_sports = Range(sports)

\* C4 as stated: a returned cycle in which every list of live fixtures the
\* provider gave was empty has no game
C4_NoFixturesNoGames ==
  \A t \in Threads :
    (loc[t].outcome = "returned" /\ loc[t].lists = "empty") => no_games(loc[t])

\* C4, amended: a returned cycle in which every list of live fixtures the
\* provider gave was empty, and in which no lookup was answered from an
\* unexpired per-pair cache entry, has total_games = 0 and an empty game
\* list for every configured sport; no cycle ends with an error
C4_NoFixturesNoCachedPairNoGames ==
  \A t \in Threads :
    /\ loc[t].outcome # "raised"
    /\ (loc[t].outcome = "returned" /\ loc[t].lists = "empty" /\ ~loc[t].pair_hits)
         => no_games(loc[t])

\* a cycle that looked events up, saw only empty fixture lists and used no
\* per-pair cache entry has returned
C4_Witness ==
  \E t \in Threads :
    /\ loc[t].outcome = "returned"
    /\ loc[t].lists = "empty"
    /\ ~loc[t].pair_hits
    /\ loc[t].n_calls > 1
    /\ loc[t].trailing = "list_cache"

\* C5: at most one request for the live-fixture list is in flight
C5_SingleFlight == Cardinality({t \in Threads : pc[t] \in Inflight}) <= 1

\* the fixture-list cache holds a list younger than CACHE_SECONDS
ListFresh ==
  /\ _all_matches_cache # <<>>
  /\ now - _all_matches_cache[1].cached_at < CACHE_SECONDS

\* C6: while the cached fixture list is younger than 30 s a call of
\* _fetch_all_live_matches returns it, issues no request and leaves the
\* cache alone; with no entry, or at an age of 30 s or more, the call issues
\* one request, and a successful answer replaces the entry by the new list
\* stamped with the current time
C6_FixtureListTTL ==
  [][\A t \in Threads :
       /\ (pc[t] = "event" /\ Moved(t) /\ ListFresh) =>
            /\ pc'[t] # "list_inflight_event"
            /\ _all_matches_cache' = _all_matches_cache
            /\ loc'[t].last.src \in {"none", "pair_cache", "list_cache"}
            /\ loc'[t].last.src = "list_cache" =>
                 loc'[t].live_matches = _all_matches_cache[1].matches
       /\ (pc[t] = "event" /\ Moved(t) /\ ~ListFresh) =>
            /\ _all_matches_cache' = _all_matches_cache
            /\ \/ pc'[t] = "list_inflight_event"
               \/ loc'[t].last.src \in {"none", "pair_cache"}
       /\ (pc[t] = "unmatched" /\ Moved(t)) =>
            /\ _all_matches_cache' = _all_matches_cache
            /\ IF ListFresh
                 THEN pc'[t] = "idle" /\ loc'[t].trailing = "list_cache"
                 ELSE pc'[t] = "list_inflight_unmatched"
       /\ (pc[t] = "list_inflight_event" /\ Moved(t) /\ loc'[t].last.resp = "ok") =>
            _all_matches_cache' = <<[matches |-> loc'[t].live_matches, cached_at |-> now]>>
       /\ (pc[t] = "list_inflight_unmatched" /\ Moved(t) /\ loc'[t].trailing = "ok") =>
            /\ _all_matches_cache' # <<>>
            /\ _all_matches_cache'[1].cached_at = now
            /\ _all_matches_cache'[1].matches # <<>> => loc'[t].lists = "some"
    ]_vars

\* a request is in flight that was issued although the cache held a list,
\* because the list had reached the age of CACHE_SECONDS
C6_Witness ==
  \E t \in Threads :
    /\ pc[t] \in Inflight
    /\ _all_matches_cache # <<>>
    /\ now - _all_matches_cache[1].cached_at >= CACHE_SECONDS

\* C7: a failed request for the live-fixture list makes the lookup raise
\* (no list, no "not live" answer, no game) and leaves the fixture-list
\* cache and the per-pair cache as they were
C7_FailedFetchRaises ==
  [][\A t \in Threads :
       /\ (pc[t] = "list_inflight_event" /\ Moved(t) /\ loc'[t].last.resp = "failed") =>
            /\ loc'[t].last.err
            /\ loc'[t].last.live_data = <<>>
            /\ ~loc'[t].last.game
            /\ loc'[t].lists = loc[t].lists
            /\ _all_matches_cache' = _all_matches_cache
            /\ _cache' = _cache
       /\ (pc[t] = "list_inflight_unmatched" /\ Moved(t) /\ loc'[t].trailing = "failed") =>
            /\ loc'[t].lists = loc[t].lists
            /\ _all_matches_cache' = _all_matches_cache
            /\ _cache' = _cache
    ]_vars

\* a lookup met a failed request while both caches held entries
C7_Witness ==
  \E t \in Threads :
    /\ loc[t].last.resp = "failed"
    /\ loc[t].last.err
    /\ _all_matches_cache # <<>>
    /\ _cache # <<>>

\* the normalized (home, away) pair
normalized_pair(pair) == <<normalized_name[pair[1]], normalized_name[pair[2]]>>

\* C8: a lookup answered from the per-pair cache is answered from an entry
\* written by a lookup for the same normalized (home, away) pair
C8_PairEntryNotShared ==
  \A t \in Threads :
    loc[t].last.src = "pair_cache" =>
      normalized_pair(loc[t].last.entry_pair) = normalized_pair(loc[t].last.pair)

\* what qualifies a sub-market for the moneyline: exactly 2 outcomes and a
\* token; its question names a draw, or a win
eligible(m) == Len(parse_json_field(m.outcomes)) = 2 /\ parse_json_field(m.clobTokenIds) # <<>>
draw_question == [m \in SubMarkets |-> Contains(Lower(m.question), <<"d","r","a","w">>)]
win_question == [m \in SubMarkets |-> Contains(Lower(m.question), <<"w","i","n">>)]
DrawSubMarkets == {m \in SubMarkets : eligible(m) /\ draw_question[m]}
WinSubMarkets == {m \in SubMarkets : eligible(m) /\ win_question[m]}
yes_tokens(ms) == {parse_json_field(m.clobTokenIds)[1] : m \in ms}

\* how many of markets[1..] are in the set ms
count_in(markets, ms) == Cardinality({j \in 1..Len(markets) : markets[j] \in ms})

\* C9: with has_draw, extract_moneyline returns None or exactly 3 outcomes
\* whose middle one is the draw outcome of a draw sub-market and whose
\* first and third are team-win outcomes; without has_draw, None or exactly
\* 2 team-win outcomes
C9_MoneylineShape ==
  (ml.stage = "done" /\ ml.result # <<>>) =>
    LET outcomes == ml.result[1].outcomes IN
    /\ ml.result[1].has_draw = ml.has_draw
    /\ IF ml.has_draw
         THEN /\ Len(outcomes) = 3
              /\ outcomes[2].name = <<"D","r","a","w">>
              /\ outcomes[2].token_id \in yes_tokens(DrawSubMarkets)
              /\ outcomes[1].token_id \in yes_tokens(WinSubMarkets \ DrawSubMarkets)
              /\ outcomes[3].token_id \in yes_tokens(WinSubMarkets \ DrawSubMarkets)
         ELSE /\ Len(outcomes) = 2
              /\ \A j \in 1..2 : outcomes[j].token_id \in yes_tokens(WinSubMarkets)

\* a moneyline with a draw was extracted from a list that also holds
\* sub-markets that do not qualify
C9_Witness ==
  /\ ml.stage = "done"
  /\ ml.has_draw
  /\ ml.result # <<>>
  /\ Len(ml.markets) = MaxMarkets
  /\ count_in(ml.markets, SubMarkets \ (DrawSubMarkets \cup WinSubMarkets)) > 0

\* C10: extract_moneyline returns a moneyline only when the list holds
\* exactly 2 eligible team-win sub-markets and, with has_draw, exactly 1
\* eligible draw sub-market
C10_ExactCardinality ==
  (ml.stage = "done" /\ ml.result # <<>>) =>
    IF ml.has_draw
      THEN /\ count_in(ml.markets, WinSubMarkets \ DrawSubMarkets) = 2
           /\ count_in(ml.markets, DrawSubMarkets) = 1
      ELSE count_in(ml.markets, WinSubMarkets) = 2

\* C11: in every game of a draw-eligible sport the first moneyline outcome
\* is the win outcome of the game's home team and the third that of its
\* away team, in whatever order the event's sub-markets are listed
C11_HomeDrawAwayOrder ==
  (fn.name = "process_event" /\ fn.stage = "done" /\ fn.result # <<>>
     /\ has_draw_option(fn.sport)) =>
    LET game == fn.result[1] IN
    /\ Len(game.moneyline.outcomes) = 3
    /\ game.moneyline.outcomes[1].name = game.home_team
    /\ game.moneyline.outcomes[3].name = game.away_team

\* the sub-markets of a list that qualify, in their order
RECURSIVE eligible_only(_)
eligible_only(markets) ==
  IF markets = <<>> THEN <<>>
  ELSE (IF eligible(Head(markets)) THEN <<Head(markets)>> ELSE <<>>)
         \o eligible_only(Tail(markets))

\* C12: only sub-markets with exactly 2 outcomes and a token contribute to
\* a moneyline, each with its first token: every outcome returned carries
\* the first token of such a sub-market of the list, the sub-markets with
\* another number of outcomes or without tokens make no difference to the
\* result, and with has_draw a list with fewer than two 'win'-bearing
\* binary sub-markets yields absent
C12_OnlyBinaryWithToken ==
  (ml.stage = "done") =>
    /\ ml.result # <<>> =>
         \A j \in 1..Len(ml.result[1].outcomes) :
           \E k \in 1..Len(ml.markets) :
             /\ Len(parse_json_field(ml.markets[k].outcomes)) = 2
             /\ parse_json_field(ml.markets[k].clobTokenIds) # <<>>
             /\ ml.result[1].outcomes[j].token_id
                  = parse_json_field(ml.markets[k].clobTokenIds)[1]
    /\ ml.result = extract_moneyline(eligible_only(ml.markets), ml.price_data_map, ml.has_draw)
    /\ (ml.has_draw /\ count_in(ml.markets, WinSubMarkets) < 2) => ml.result = <<>>

\* a moneyline was extracted from a list that holds a three-outcome
\* sub-market or one without tokens, both with 'win' in the question
C12_Witness ==
  /\ ml.stage = "done"
  /\ ml.result # <<>>
  /\ count_in(ml.markets, {MkThreeWay}) > 0
  /\ count_in(ml.markets, {MkNoTokens}) > 0

\* with has_draw, a list with a binary draw sub-market and fewer than two
\* 'win'-bearing binary sub-markets gave absent
C12_WitnessDrawOnly ==
  /\ ml.stage = "done"
  /\ ml.has_draw
  /\ count_in(ml.markets, DrawSubMarkets) > 0
  /\ count_in(ml.markets, WinSubMarkets) = 1
  /\ ml.result = <<>>

\* C13: a spread or midpoint that the request fails to fetch, or that the
\* upstream does not supply, is absent in the token's price data, and a
\* supplied one is recorded, each field independently of the other
C13_MissingPriceIsAbsent ==
  (fn.name = "get_price_data" /\ fn.stage = "done") =>
    /\ fn.result.spread = (IF fn.spread_response.kind = "value"
                             THEN <<fn.spread_response.val>> ELSE <<>>)
    /\ fn.result.price = (IF fn.price_response.kind = "value"
                            THEN <<fn.price_response.val>> ELSE <<>>)

\* the fuzzy-match decision for every name of a looked-up pair against
\* every name a fixture reports
LookupNames == UNION {{p[1], p[2]} : p \in LookupPairs}
FixtureNames == UNION {{f.homeTeam, f.awayTeam} : f \in LookupFixtures}
fuzzy == [a \in LookupNames |-> [b \in FixtureNames |-> _teams_match(a, b)]]

\* fixture f matches the call on both sides
both_sides(f) == fuzzy[fn.home_team][f.homeTeam] /\ fuzzy[fn.away_team][f.awayTeam]

\* the result of the call is absent when no fixture of the list is in
\* Candidates, and else built from the first one that is
first_of(Candidates) ==
  LET hits == {i \in 1..Len(fn.live_matches) : fn.live_matches[i] \in Candidates}
  IN IF hits = {} THEN fn.result = <<>>
     ELSE LET first == fn.live_matches[CHOOSE i \in hits : \A j \in hits : i <= j]
          IN /\ fn.result # <<>>
             /\ fn.result[1].event_id = first.id
             /\ fn.result[1].home_team = first.homeTeam
             /\ fn.result[1].away_team = first.awayTeam

C15_NormalizeIdempotent ==
  (fn.name = "_normalize_team_name" /\ fn.stage = "again") => fn.again = fn.result

\* the suffix terms and the prefixes, as words
TermWords ==
  {Strip(suffixes[i]) : i \in 1..Len(suffixes)} \cup {Strip(prefixes[i]) : i \in 1..Len(prefixes)}

\* the words of a name that are not terms, in their order
RECURSIVE other_words(_)
other_words(ws) ==
  IF ws = <<>> THEN <<>>
  ELSE (IF Head(ws) \in TermWords THEN <<>> ELSE <<Head(ws)>>) \o other_words(Tail(ws))

\* C16: suffix stripping removes whole words only: "Rangers Reserves"
\* normalizes to "rangers"; every word of the normalized name is a word of
\* the lower-cased name, and the words of the name that are no terms, those
\* that merely contain one included, are all kept, in their order
C16_SuffixWholeWordsOnly ==
  (fn.name = "_normalize_team_name" /\ fn.stage \in {"done", "again"}) =>
    LET words_in == SplitWords(Lower(fn.team_name))
        words_out == SplitWords(fn.result)
    IN /\ fn.team_name = <<"R","a","n","g","e","r","s"," ","R","e","s","e","r","v","e","s">> => fn.result = <<"r","a","n","g","e","r","s">>
       /\ Range(words_out) \subseteq Range(words_in)
       /\ other_words(words_out) = other_words(words_in)

\* a name with a suffix term as a word and a word that contains one was
\* normalized: the term is gone, the word is kept
C16_Witness ==
  /\ fn.name = "_normalize_team_name"
  /\ fn.stage = "done"
  /\ fn.team_name = <<"x","f","c"," ","R","e","s","e","r","v","e","s"," ","f","c">>
  /\ fn.result = <<"x","f","c">>

\* C17: _teams_match(a, b) = _teams_match(b, a)
C17_MatchSymmetric ==
  (fn.name = "_teams_match" /\ fn.stage = "both") => fn.result = fn.swapped

\* two names that are not equal and do not contain one another were matched
\* by their word overlap, in both orders
C17_Witness ==
  /\ fn.name = "_teams_match"
  /\ fn.stage = "both"
  /\ fn.team1 = <<"a","j","a","x"," ","b">>
  /\ fn.team2 = <<"a","j","a","x"," ","c"," ","b">>
  /\ fn.result
  /\ fn.swapped

\* the vote of one statistic, in tenths: points to the side that leads by
\* more than lead
vote_home(stat, lead, points) ==
  IF stat # <<>> /\ stat[1][1] > stat[1][2] + lead THEN points ELSE 0
vote_away(stat, lead, points) ==
  IF stat # <<>> /\ stat[1][2] > stat[1][1] + lead THEN points ELSE 0

\* the direction the weighted vote of the call's statistics gives
voted_direction ==
  LET home == vote_home(fn.possession, 10, 10) + vote_home(fn.attacks, 0, 15)
                + vote_home(fn.dangerous_attacks, 0, 20)
      away == vote_away(fn.possession, 10, 10) + vote_away(fn.attacks, 0, 15)
                + vote_away(fn.dangerous_attacks, 0, 20)
  IN IF 10 * home > 12 * away THEN "home"
     ELSE IF 10 * away > 12 * home THEN "away"
     ELSE "neutral"

\* C18: without graph data but with any of possession, attack counts or
\* dangerous-attack counts, the momentum direction is the weighted vote
\* (possession lead above 10 scores 1, attack lead 1.5, dangerous-attack
\* lead 2; a side wins with more than 1.2 times the other's total, else
\* 'neutral'); possession 60/40 with attacks 20 vs 10 and no
\* dangerous-attack data gives 'home'
C18_WeightedVote ==
  (/\ fn.name = "fetch_game_momentum"
   /\ fn.stage = "done"
   /\ fn.graph_points = <<>>
   /\ (fn.possession # <<>> \/ fn.attacks # <<>> \/ fn.dangerous_attacks # <<>>)) =>
    /\ fn.result # <<>>
    /\ fn.result[1].momentum_direction = <<voted_direction>>
    /\ (/\ fn.possession = << <<60, 40>> >>
        /\ fn.attacks = << <<20, 10>> >>
        /\ fn.dangerous_attacks = <<>>) => fn.result[1].momentum_direction = <<"home">>

\* the listed events that pass the filter of sport s and the potentially-live
\* pre-filter at time t
survivors(s, t) ==
  {open_events[j] : j \in {k \in 1..Len(open_events) :
      /\ sport_event_of[s][open_events[k]]
      /\ ~EventById[open_events[k]].closed
      /\ \E field \in {EventById[open_events[k]].startTime,
                       EventById[open_events[k]].eventDate} :
           field.kind = "time" /\ field.at <= t}}

total_live_of(result_sports, s) ==
  IF s \in DOMAIN result_sports THEN result_sports[s].total_live ELSE 0

\* the counts of a result agree with its game lists
counts_agree(result_sports, total_games) ==
  /\ \A s \in DOMAIN result_sports :
       /\ result_sports[s].total_live = Len(result_sports[s].games)
       /\ result_sports[s].total_live <= result_sports[s].total_found
  /\ total_games = total_live_of(result_sports, "Soccer") + total_live_of(result_sports, "NHL")

\* C19: in the result of get_all_live_games, for every sport, total_found
\* is the number of events that passed the sport filter and the
\* potentially-live pre-filter, total_live is the length of the sport's
\* game list and at most total_found, and total_games is the sum of
\* total_live over the sports
C19_AggregateCounts ==
  /\ [](/\ \A t \in Threads : counts_agree(loc[t].result_sports, loc[t].total_games)
        /\ games_cache.data # <<>> =>
             counts_agree(games_cache.data[1].sports, games_cache.data[1].total_games))
  /\ [][\A t \in Threads :
          /\ (pc[t] = "sport" /\ Moved(t)) =>
               \/ /\ pc'[t] = "event"
                  /\ Range(loc'[t].live_events) = survivors(sports[loc[t].sport_idx], now)
                  /\ Len(loc'[t].live_events)
                       = Cardinality(survivors(sports[loc[t].sport_idx], now))
               \/ /\ pc'[t] # "event"
                  /\ survivors(sports[loc[t].sport_idx], now) = {}
                  /\ loc'[t].result_sports[sports[loc[t].sport_idx]].total_found = 0
          /\ (pc[t] \in {"event", "list_inflight_event"} /\ pc'[t] \in {"sport", "unmatched"}) =>
               loc'[t].result_sports[sports[loc[t].sport_idx]].total_found
                 = Len(loc[t].live_events)
     ]_vars

\* a stored result has a sport with more events found than games, and a game
C19_Witness ==
  /\ games_cache.data # <<>>
  /\ \E s \in DOMAIN games_cache.data[1].sports :
       /\ games_cache.data[1].sports[s].total_found = 2
       /\ games_cache.data[1].sports[s].total_live = 1
  /\ games_cache.data[1].total_games >= 1

\* C20: get_events asks for the pages at offsets 0, limit, 2*limit, ...,
\* stops at the first empty page, the first failed request or when the
\* offset reaches MAX_TOTAL_EVENTS, never raises, and returns the
\* concatenation of the pages fetched before the stop
C20_PaginationNeverRaises ==
  (fn.name = "get_events") =>
    /\ fn.stage # "raised"
    /\ fn.offset % fn.limit = 0
    /\ fn.offset <= MAX_TOTAL_EVENTS + fn.limit - 1
    /\ fn.stage = "loop" => fn.requests * fn.limit = fn.offset
    /\ fn.all_events = [i \in 1..Len(fn.all_events) |-> i]
    /\ Len(fn.all_events) = (IF fn.upstream < fn.offset THEN fn.upstream ELSE fn.offset)


\* ------------------------------------------------------------------------
\* C21
\* ------------------------------------------------------------------------

\* C21: an answer of the live-fixture endpoint without an 'events' field
\* makes check_health fail with an error, and _fetch_all_live_matches does
\* not accept it: the call raises, returns no list and leaves the
\* fixture-list cache as it was.
C21_MissingEventsRejected ==
  (fn.stage = "done" /\ fn.resp = "missing_events") =>
     /\ fn.raised
     /\ fn.name = "_fetch_all_live_matches" => fn.cache = fn.cache_before

\* ------------------------------------------------------------------------
\* C22
\* ------------------------------------------------------------------------

\* the title without the known suffixes
RECURSIVE without_suffixes(_, _)
without_suffixes(title, i) ==
  IF i > Len(title_suffixes) THEN title
  ELSE without_suffixes(Replace(title, title_suffixes[i], <<>>), i + 1)

\* the first separator of the ordered list that the text contains in any
\* letter case (0: none)
first_separator(text) ==
  IF \E i \in 1..Len(separators) : Contains(Lower(text), separators[i])
    THEN CHOOSE i \in 1..Len(separators) :
           /\ Contains(Lower(text), separators[i])
           /\ \A j \in 1..(i - 1) : ~Contains(Lower(text), separators[j])
    ELSE 0

\* the two sides of the first occurrence of that separator, found without
\* regard to letter case
split_insensitive(text) ==
  LET sep == separators[first_separator(text)]
      p == Find(Lower(text), sep)
  IN <<Strip(SubSeq(text, 1, p - 1)), Strip(From(text, p + Len(sep)))>>

\* C22: extract_teams_from_title removes the known title suffixes and splits
\* on the first occurrence of the first separator of [' vs. ', ' vs ', ' v ']
\* that the title contains, matching the separator case-insensitively; it
\* returns the absent pair exactly when the title contains none of the
\* separators in any letter case.
C22_SplitsCaseInsensitively ==
  (fn.name = "extract_teams_from_title" /\ fn.stage = "done") =>
     LET text == without_suffixes(fn.title, 1)
     IN /\ IsNone(fn.result) <=> first_separator(fn.title) = 0
        /\ first_separator(text) # 0 => fn.result = split_insensitive(text)

\* ------------------------------------------------------------------------
\* C23
\* ------------------------------------------------------------------------

\* a sub-market with exactly 3 outcomes one of which contains a draw/tie term
three_way_with_draw(event) ==
  \E i \in 1..Len(event.markets) :
     LET outcomes == outcomes_of(event.markets[i])
     IN /\ Len(outcomes) = 3
        /\ \E k \in 1..3 : \/ Contains(Lower(outcomes[k]), <<"d","r","a","w">>)
                           \/ Contains(Lower(outcomes[k]), <<"t","i","e">>)

\* the title matches a soccer keyword
keyword_match(event) ==
  \/ Contains(Lower(event.title), <<"f","c">>)
  \/ Contains(Lower(event.title), <<"f",".","c",".">>)
  \/ ContainsAny(Lower(event.title), soccer_terms)

\* C23: SoccerSport.is_sport_event accepts an event only if it matches
\* positively (a keyword, or a sub-market with exactly 3 outcomes one of
\* which is a draw/tie) and its title contains no term of the exclusion
\* keyword list, whichever of the two rules accepts it.
C23_ExcludedNeverSoccer ==
  (fn.name = "is_sport_event" /\ fn.stage = "done" /\ fn.sport = "Soccer" /\ fn.result) =>
     /\ three_way_with_draw(fn.event) \/ keyword_match(fn.event)
     /\ ~ContainsAny(Lower(fn.event.title), soccer_excluded)

\* ------------------------------------------------------------------------
\* C24
\* ------------------------------------------------------------------------

first_half_phase(status) ==
  Contains(Lower(status), <<"1","s","t">>) \/ Contains(Lower(status), <<"f","i","r","s","t">>)
second_half_phase(status) ==
  ~first_half_phase(status)
    /\ (Contains(Lower(status), <<"2","n","d">>) \/ Contains(Lower(status), <<"s","e","c","o","n","d">>))
halftime_phase(status) ==
  ~first_half_phase(status) /\ ~second_half_phase(status)
    /\ Contains(Lower(status), <<"h","a","l","f","t","i","m","e">>)

\* C24: with a period-start timestamp the result of _calculate_game_minute
\* lies in [0, 45] for a first-half phase and in [45, 90] for a second-half
\* phase, whatever now and the period start are (a period start later than
\* now included); the result is absent for a halftime phase and when there
\* is no period-start timestamp.
C24_MinuteClamped ==
  (fn.name = "_calculate_game_minute" /\ fn.stage = "done") =>
     /\ IsNone(fn.period_start) => IsNone(fn.result)
     /\ halftime_phase(fn.status_description) => IsNone(fn.result)
     /\ (~IsNone(fn.period_start) /\ first_half_phase(fn.status_description)) =>
           (~IsNone(fn.result) /\ The(fn.result) \in 0..45)
     /\ (~IsNone(fn.period_start) /\ second_half_phase(fn.status_description)) =>
           (~IsNone(fn.result) /\ The(fn.result) \in 45..90)

\* ------------------------------------------------------------------------
\* C25
\* ------------------------------------------------------------------------

\* the sum of points[first + i - 1] * i for i in 1..k
RECURSIVE weighted_total(_, _, _)
weighted_total(points, first, k) ==
  IF k = 0 THEN 0 ELSE points[first + k - 1] * k + weighted_total(points, first, k - 1)

\* v is x / y truncated to an integer (y > 0)
is_truncated(v, x, y) ==
  \E r \in (1 - y)..(y - 1) :
     /\ v * y + r = x
     /\ r # 0 => (r > 0 <=> x > 0)

nothing_populated(momentum) ==
  /\ momentum.momentum_graph = <<>>
  /\ IsNone(momentum.momentum_value)
  /\ IsNone(momentum.momentum_direction)
  /\ IsNone(momentum.possession)
  /\ IsNone(momentum.attacks)
  /\ IsNone(momentum.dangerous_attacks)
  /\ ~momentum.recent_comments

\* C26: fetch_game_momentum uses what each of the graph, statistics and
\* commentary calls gave whatever happened to the other two, and never
\* raises; it returns absent exactly when the resulting snapshot has no
\* populated field at all (no graph, scalar, direction, possession, attack,
\* dangerous-attack or commentary data), and the snapshot otherwise.
C26_AbsentIffNothingPopulated ==
  (fn.name = "fetch_game_momentum" /\ fn.stage = "done") =>
     /\ fn.momentum.momentum_graph = fn.graph_points
     /\ fn.momentum.possession = fn.possession
     /\ fn.momentum.attacks = fn.attacks
     /\ fn.momentum.dangerous_attacks = fn.dangerous_attacks
     /\ fn.momentum.recent_comments = fn.comments
     /\ IsNone(fn.result) <=> nothing_populated(fn.momentum)
     /\ ~IsNone(fn.result) => The(fn.result) = fn.momentum

\* ------------------------------------------------------------------------
\* C27
\* ------------------------------------------------------------------------

\* C27: a name whose normalized form is empty (a name of stripped suffix
\* words only, a missing name) never fuzzy-matches a name whose normalized
\* form is not empty: _teams_match returns false for such a pair.
C27_EmptyNameNeverMatches ==
  (/\ fn.name = "_teams_match"
   /\ fn.stage # "input"
   /\ _normalize_team_name(fn.team1) = <<>>
   /\ _normalize_team_name(fn.team2) # <<>>) => ~fn.result

\* ------------------------------------------------------------------------
\* C28
\* ------------------------------------------------------------------------

\* thread t takes a step in which a process_event call ends
CallEnds(t) ==
  /\ pc[t] \in {"event", "list_inflight_event"}
  /\ Moved(t)
  /\ pc'[t] # "list_inflight_event"

\* C28: get_live_game_data writes the per-pair cache only when it returns a
\* fixture it matched in the fixture list, and then under the key of the
\* call, with the current time; a call that returns absent or raises, or is
\* answered from the per-pair cache, leaves the cache as it was, so that no
\* absent result is ever served from it and a pair without a fresh entry is
\* looked up in the fixture list again; entries are never removed, and an
\* entry is replaced only by a newer match under the same key.
C28_PairCacheWrittenOnMatchOnly ==
  [][/\ \A t \in Threads :
          CallEnds(t) =>
            LET call == loc'[t].last IN
            /\ IF call.src \in {"list_cache", "upstream"} /\ call.live_data # <<>>
                 THEN LET key == cache_key(call.pair[1], call.pair[2]) IN
                      /\ DOMAIN _cache' = DOMAIN _cache \cup {key}
                      /\ _cache'[key].data = The(call.live_data)
                      /\ _cache'[key].cached_at = now
                      /\ \A k \in DOMAIN _cache \ {key} : _cache'[k] = _cache[k]
                 ELSE _cache' = _cache
            /\ call.src = "pair_cache" =>
                 /\ cache_key(call.pair[1], call.pair[2]) \in DOMAIN _cache
                 /\ now - _cache[cache_key(call.pair[1], call.pair[2])].cached_at
                      < CACHE_SECONDS
                 /\ call.live_data = Some(_cache[cache_key(call.pair[1], call.pair[2])].data)
     /\ (\A t \in Threads : ~CallEnds(t)) => _cache' = _cache
     /\ \A k \in DOMAIN _cache :
          /\ k \in DOMAIN _cache'
          /\ _cache'[k].cached_at >= _cache[k].cached_at
    ]_vars

\* a lookup in the fixture list returned absent for a pair whose key has an
\* entry (one too old to be served)
C28_Witness ==
  \E t \in Threads :
    /\ loc[t].last.src \in {"list_cache", "upstream"}
    /\ ~loc[t].last.err
    /\ loc[t].last.pair # <<>>
    /\ loc[t].last.live_data = <<>>
    /\ cache_key(loc[t].last.pair[1], loc[t].last.pair[2]) \in DOMAIN _cache

\* ------------------------------------------------------------------------
\* C29
\* ------------------------------------------------------------------------

\* thread t is inside get_all_live_games: fetch_and_cache_data has set
\* is_fetching and has not reached its finally clause
InCycle(t) == pc[t] \notin {"idle", "guard_passed"}

\* C29: at most one poll cycle runs at a time, and is_fetching is true
\* exactly while some fetch_and_cache_data call is between setting the flag
\* after its guard and its finally clause.
C29_OneCycleAtATime ==
  /\ Cardinality({t \in Threads : InCycle(t)}) <= 1
  /\ games_cache.is_fetching <=> \E t \in Threads : InCycle(t)

\* ------------------------------------------------------------------------
\* C30
\* ------------------------------------------------------------------------

\* thread t takes the step in which its poll cycle ends
CycleEnds(t) == pc[t] \notin {"idle", "guard_passed"} /\ pc'[t] = "idle"

\* app.py get_live_games after the refresh: 503 without a cached result,
\* else the cached result
live_games_answer ==
  IF IsNone(games_cache.data) THEN [status |-> 503, body |-> <<>>]
  ELSE [status |-> 200, body |-> games_cache.data]

====
